---- MODULE Spec2Model ----
(***************************************************************************)
(* Backtesting engine of hurribot: the leveraged Contract model            *)
(* (src/src/backtest/contract.rs) and the RollOnceStrategy ladder state    *)
(* machine (src/src/backtest/strategy/roll_strategy.rs).                   *)
(*                                                                         *)
(* f64 quantities are modelled as exact rationals <<numerator,             *)
(* denominator>> in lowest terms with a positive denominator, so that two  *)
(* equal quantities are equal values and every comparison of the source    *)
(* (<, >, >=) is decided exactly.  Option<T> is modelled as a sequence of  *)
(* length 0 (None) or 1 (Some).                                            *)
(***************************************************************************)
EXTENDS Integers, Sequences, FiniteSets, TLC

----------------------------------------------------------------------------
(* Exact rational arithmetic standing for the f64 operators of the source. *)

Abs(n) == IF n < 0 THEN -n ELSE n

RECURSIVE GCD(_, _)
GCD(a, b) == IF b = 0 THEN a ELSE GCD(b, a % b)

\* n/d in lowest terms, d # 0
Rat(n, d) ==
    LET g == GCD(Abs(n), Abs(d))
        sgn == IF d < 0 THEN -1 ELSE 1
    IN  <<sgn * (n \div g), sgn * (d \div g)>>

Num(x) == x[1]
Den(x) == x[2]
LCM(a, b) == (a \div GCD(a, b)) * b

RAdd(x, y) ==
    LET l == LCM(Den(x), Den(y))
    IN  Rat(Num(x) * (l \div Den(x)) + Num(y) * (l \div Den(y)), l)

RNeg(x) == <<-Num(x), Den(x)>>
RSub(x, y) == RAdd(x, RNeg(y))

\* cross-cancelling before the products keeps the intermediate integers small
RMul(x, y) ==
    LET g1 == GCD(Abs(Num(x)), Den(y))
        g2 == GCD(Abs(Num(y)), Den(x))
    IN  Rat((Num(x) \div g1) * (Num(y) \div g2), (Den(x) \div g2) * (Den(y) \div g1))

\* y # 0
RDiv(x, y) == RMul(x, Rat(Den(y), Num(y)))

RLt(x, y) ==
    LET l == LCM(Den(x), Den(y))
    IN  Num(x) * (l \div Den(x)) < Num(y) * (l \div Den(y))
RGt(x, y) == RLt(y, x)
RLe(x, y) == ~RLt(y, x)
RGe(x, y) == ~RLt(x, y)

Zero == Rat(0, 1)
One == Rat(1, 1)

None == <<>>
Some(x) == <<x>>

----------------------------------------------------------------------------
(* contract.rs                                                             *)

\* pub const HANDLING_FEE_RATE_MAKER: f64 = 0.0002
HANDLING_FEE_RATE_MAKER == Rat(2, 10000)

\* maintenance margin rate, the literal 0.004 of Contract::open
MAINTENANCE_RATE == Rat(4, 1000)

\* forced-liquidation factor, the literal 0.85 of Contract::liquidate
LIQUIDATION_FACTOR == Rat(85, 100)

\* LiqPrice with the maintenance margin applied with the wrong sign (faulty variant)
LiqPrice_wrong_sign(is_bull_, entry_price, leverage) ==
    IF is_bull_
    THEN RSub(RMul(entry_price, RSub(One, RDiv(One, leverage))),
              RMul(entry_price, MAINTENANCE_RATE))
    ELSE RAdd(RMul(entry_price, RAdd(One, RDiv(One, leverage))),
              RMul(entry_price, MAINTENANCE_RATE))

\* let liq_price = if is_bull { .. } else { .. }
LiqPrice(is_bull_, entry_price, leverage) ==
    IF is_bull_
    THEN RAdd(RMul(entry_price, RSub(One, RDiv(One, leverage))),
              RMul(entry_price, MAINTENANCE_RATE))
    ELSE RSub(RMul(entry_price, RAdd(One, RDiv(One, leverage))),
              RMul(entry_price, MAINTENANCE_RATE))

\* StopLossKept dropping a stop-loss equal to the liquidation price too (faulty variant)
StopLossKept_drops_equal(is_bull_, stop_loss, liq_price) ==
    IF stop_loss # None
       /\ (\/ (is_bull_ /\ RLe(stop_loss[1], liq_price))
           \/ (~is_bull_ /\ RGe(stop_loss[1], liq_price)))
    THEN None
    ELSE stop_loss

\* if let Some(sl) = stop_loss { if .. { stop_loss = None } }
StopLossKept(is_bull_, stop_loss, liq_price) ==
    IF stop_loss # None
       /\ (\/ (is_bull_ /\ RLt(stop_loss[1], liq_price))
           \/ (~is_bull_ /\ RGt(stop_loss[1], liq_price)))
    THEN None
    ELSE stop_loss

\* Contract::open: never fails, returns Self for every argument
Contract_open(is_bull_, entry_price, offered_balance, leverage, open_time, stop_loss) ==
    LET margin == RDiv(offered_balance,
                       RAdd(One, RMul(leverage, HANDLING_FEE_RATE_MAKER)))
        liq_price == LiqPrice(is_bull_, entry_price, leverage)
        amount == RDiv(RMul(margin, leverage), entry_price)
    IN  [is_bull |-> is_bull_,
         margin |-> margin,
         entry_price |-> entry_price,
         open_time |-> open_time,
         liq_price |-> liq_price,
         amount |-> amount,
         leverage |-> leverage,
         stop_loss |-> StopLossKept(is_bull_, stop_loss, liq_price)]

\* Contract_cover charging the fee on both legs (faulty variant)
Contract_cover_fee_twice(c, price) ==
    IF c.is_bull
    THEN RSub(RAdd(RMul(c.amount, RSub(price, c.entry_price)), c.margin),
              RMul(RMul(c.amount, RAdd(price, c.entry_price)), HANDLING_FEE_RATE_MAKER))
    ELSE RSub(RAdd(RMul(c.amount, RSub(c.entry_price, price)), c.margin),
              RMul(RMul(c.amount, RAdd(price, c.entry_price)), HANDLING_FEE_RATE_MAKER))

\* Contract::cover
Contract_cover(c, price) ==
    IF c.is_bull
    THEN RSub(RAdd(RMul(c.amount, RSub(price, c.entry_price)), c.margin),
              RMul(RMul(c.amount, price), HANDLING_FEE_RATE_MAKER))
    ELSE RSub(RAdd(RMul(c.amount, RSub(c.entry_price, price)), c.margin),
              RMul(RMul(c.amount, price), HANDLING_FEE_RATE_MAKER))

\* Contract_liquidate realizing the exit at the price observed (faulty variant)
Contract_liquidate_at_price(c, price) ==
    IF c.stop_loss # None
       /\ (\/ (c.is_bull /\ RLt(price, c.stop_loss[1]))
           \/ (~c.is_bull /\ RGt(price, c.stop_loss[1])))
    THEN Some(Contract_cover(c, price))
    ELSE IF (c.is_bull /\ RLt(price, c.liq_price)) \/ (~c.is_bull /\ RGt(price, c.liq_price))
    THEN Some(RMul(Contract_cover(c, price), LIQUIDATION_FACTOR))
    ELSE None

\* Contract_liquidate testing the liquidation price before the stop-loss (faulty variant)
Contract_liquidate_liq_first(c, price) ==
    IF (c.is_bull /\ RLt(price, c.liq_price)) \/ (~c.is_bull /\ RGt(price, c.liq_price))
    THEN Some(RMul(Contract_cover(c, c.liq_price), LIQUIDATION_FACTOR))
    ELSE IF c.stop_loss # None
            /\ (\/ (c.is_bull /\ RLt(price, c.stop_loss[1]))
                \/ (~c.is_bull /\ RGt(price, c.stop_loss[1])))
    THEN Some(Contract_cover(c, c.stop_loss[1]))
    ELSE None

\* Contract_liquidate firing on a price equal to the trigger (faulty variant)
Contract_liquidate_inclusive(c, price) ==
    IF c.stop_loss # None
       /\ (\/ (c.is_bull /\ RLe(price, c.stop_loss[1]))
           \/ (~c.is_bull /\ RGe(price, c.stop_loss[1])))
    THEN Some(Contract_cover(c, c.stop_loss[1]))
    ELSE IF (c.is_bull /\ RLe(price, c.liq_price)) \/ (~c.is_bull /\ RGe(price, c.liq_price))
    THEN Some(RMul(Contract_cover(c, c.liq_price), LIQUIDATION_FACTOR))
    ELSE None

\* Contract::liquidate
Contract_liquidate(c, price) ==
    IF c.stop_loss # None
       /\ (\/ (c.is_bull /\ RLt(price, c.stop_loss[1]))
           \/ (~c.is_bull /\ RGt(price, c.stop_loss[1])))
    THEN Some(Contract_cover(c, c.stop_loss[1]))
    ELSE IF (c.is_bull /\ RLt(price, c.liq_price)) \/ (~c.is_bull /\ RGt(price, c.liq_price))
    THEN Some(RMul(Contract_cover(c, c.liq_price), LIQUIDATION_FACTOR))
    ELSE None

\* Contract_close skipping the liquidation check (faulty variant)
Contract_close_no_liquidate(c, price) == Contract_cover(c, price)

\* Contract::close
Contract_close(c, price) ==
    LET r == Contract_liquidate(c, price)
    IN  IF r # None THEN r[1] ELSE Contract_cover(c, price)

----------------------------------------------------------------------------
(* strategy/roll_strategy.rs                                               *)

\* Roll_stop_loss with 1.01 in place of 0.99: beyond the liquidation price
\* (faulty variant)
Roll_stop_loss_beyond_liq(is_bull_, close, leverage) ==
    IF is_bull_
    THEN RAdd(RMul(close, RSub(One, RDiv(Rat(101, 100), leverage))),
              RMul(close, Rat(4, 1000)))
    ELSE RSub(RMul(close, RAdd(One, RDiv(Rat(101, 100), leverage))),
              RMul(close, Rat(4, 1000)))

\* let stop_loss = if self.is_bull { .. } else { .. }  (the literals 0.99 and 0.004)
Roll_stop_loss(is_bull_, close, leverage) ==
    IF is_bull_
    THEN RAdd(RMul(close, RSub(One, RDiv(Rat(99, 100), leverage))),
              RMul(close, Rat(4, 1000)))
    ELSE RSub(RMul(close, RAdd(One, RDiv(Rat(99, 100), leverage))),
              RMul(close, Rat(4, 1000)))

\* RollOnceStrategy::new
Roll_new(is_bull_, capital_, config_) ==
    [is_bull |-> is_bull_,
     capital |-> capital_,
     config |-> config_,
     contract |-> None,
     level |-> 0,
     max_value |-> Zero,
     best_price |-> Zero,
     status |-> "Processing"]

\* Roll_value marking an open contract at the best close-value seen (faulty variant)
Roll_value_best_mark(s) ==
    RAdd(s.capital, IF s.contract # None THEN s.max_value ELSE Zero)

\* RollOnceStrategy::value
Roll_value(s) ==
    RAdd(s.capital, IF s.contract # None THEN s.contract[1].margin ELSE Zero)

\* Roll_update_held testing the take-profit before the liquidation (faulty variant)
Roll_update_held_profit_first(s, candle) ==
    IF s.contract = None
    THEN [st |-> s, ret |-> FALSE]
    ELSE
    LET contract == s.contract[1]
        lvl == s.config[s.level]          \* self.config.0[self.level - 1]
        take_profit == lvl[2]
        max_draw == lvl[3]
        s0 == [s EXCEPT !.contract = None]
        r == Contract_liquidate(contract, IF s.is_bull THEN candle.low ELSE candle.high)
        value_high == Contract_close(contract, candle.high)
        value_low == Contract_close(contract, candle.low)
        s1 == IF RLt(s0.max_value, value_high)
              THEN [s0 EXCEPT !.max_value = value_high, !.best_price = candle.high]
              ELSE s0
        s2 == IF RLt(s1.max_value, value_low)
              THEN [s1 EXCEPT !.max_value = value_low, !.best_price = candle.low]
              ELSE s1
    IN  IF \/ (s.is_bull
               /\ RGt(candle.close, RMul(contract.entry_price, RAdd(One, take_profit))))
           \/ (~s.is_bull
               /\ RLt(candle.close, RMul(contract.entry_price, RSub(One, take_profit))))
        THEN [st |-> [s0 EXCEPT !.capital = RAdd(@, Contract_close(contract, candle.close))],
              ret |-> FALSE]
        ELSE IF r # None
        THEN [st |-> [s0 EXCEPT !.capital = RAdd(@, r[1]), !.status = "Failed"],
              ret |-> TRUE]
        ELSE IF max_draw # None
                /\ RLt(Contract_close(contract, candle.close),
                       RMul(s2.max_value, RSub(One, max_draw[1])))
        THEN [st |-> [s2 EXCEPT !.capital = RAdd(@, Contract_close(contract, candle.close)),
                                !.status = "Successed"],
              ret |-> TRUE]
        ELSE [st |-> [s2 EXCEPT !.contract = Some(contract)], ret |-> FALSE]

\* Roll_update_held marking a take-profit exit Successed (faulty variant)
Roll_update_held_success_on_profit(s, candle) ==
    IF s.contract = None
    THEN [st |-> s, ret |-> FALSE]
    ELSE
    LET contract == s.contract[1]
        lvl == s.config[s.level]          \* self.config.0[self.level - 1]
        take_profit == lvl[2]
        max_draw == lvl[3]
        s0 == [s EXCEPT !.contract = None]
        r == Contract_liquidate(contract, IF s.is_bull THEN candle.low ELSE candle.high)
        value_high == Contract_close(contract, candle.high)
        value_low == Contract_close(contract, candle.low)
        s1 == IF RLt(s0.max_value, value_high)
              THEN [s0 EXCEPT !.max_value = value_high, !.best_price = candle.high]
              ELSE s0
        s2 == IF RLt(s1.max_value, value_low)
              THEN [s1 EXCEPT !.max_value = value_low, !.best_price = candle.low]
              ELSE s1
    IN  IF r # None
        THEN [st |-> [s0 EXCEPT !.capital = RAdd(@, r[1]), !.status = "Failed"],
              ret |-> TRUE]
        ELSE IF \/ (s.is_bull
                    /\ RGt(candle.close, RMul(contract.entry_price, RAdd(One, take_profit))))
                \/ (~s.is_bull
                    /\ RLt(candle.close, RMul(contract.entry_price, RSub(One, take_profit))))
        THEN [st |-> [s0 EXCEPT !.capital = RAdd(@, Contract_close(contract, candle.close)),
                                !.status = "Successed"],
              ret |-> TRUE]
        ELSE IF max_draw # None
                /\ RLt(Contract_close(contract, candle.close),
                       RMul(s2.max_value, RSub(One, max_draw[1])))
        THEN [st |-> [s2 EXCEPT !.capital = RAdd(@, Contract_close(contract, candle.close)),
                                !.status = "Successed"],
              ret |-> TRUE]
        ELSE [st |-> [s2 EXCEPT !.contract = Some(contract)], ret |-> FALSE]

\* update, `if let Some(contract) = self.contract.take() { .. }`:
\* st is the strategy afterwards, ret tells whether update returned inside
Roll_update_held(s, candle) ==
    IF s.contract = None
    THEN [st |-> s, ret |-> FALSE]
    ELSE
    LET contract == s.contract[1]
        lvl == s.config[s.level]          \* self.config.0[self.level - 1]
        take_profit == lvl[2]
        max_draw == lvl[3]
        s0 == [s EXCEPT !.contract = None]
        r == Contract_liquidate(contract, IF s.is_bull THEN candle.low ELSE candle.high)
        value_high == Contract_close(contract, candle.high)
        value_low == Contract_close(contract, candle.low)
        s1 == IF RLt(s0.max_value, value_high)
              THEN [s0 EXCEPT !.max_value = value_high, !.best_price = candle.high]
              ELSE s0
        s2 == IF RLt(s1.max_value, value_low)
              THEN [s1 EXCEPT !.max_value = value_low, !.best_price = candle.low]
              ELSE s1
    IN  IF r # None
        THEN [st |-> [s0 EXCEPT !.capital = RAdd(@, r[1]), !.status = "Failed"],
              ret |-> TRUE]
        ELSE IF \/ (s.is_bull
                    /\ RGt(candle.close, RMul(contract.entry_price, RAdd(One, take_profit))))
                \/ (~s.is_bull
                    /\ RLt(candle.close, RMul(contract.entry_price, RSub(One, take_profit))))
        THEN [st |-> [s0 EXCEPT !.capital = RAdd(@, Contract_close(contract, candle.close))],
              ret |-> FALSE]
        ELSE IF max_draw # None
                /\ RLt(Contract_close(contract, candle.close),
                       RMul(s2.max_value, RSub(One, max_draw[1])))
        THEN [st |-> [s2 EXCEPT !.capital = RAdd(@, Contract_close(contract, candle.close)),
                                !.status = "Successed"],
              ret |-> TRUE]
        ELSE [st |-> [s2 EXCEPT !.contract = Some(contract)], ret |-> FALSE]

\* Roll_update_open starting the new level from max_value 0 (faulty variant)
Roll_update_open_resets_max(s, candle) ==
    IF s.contract # None THEN s
    ELSE IF s.level >= Len(s.config) THEN s
    ELSE
    LET leverage == s.config[s.level + 1][1]
        stop_loss == Roll_stop_loss(s.is_bull, candle.close, leverage)
        contract == Contract_open(s.is_bull, candle.close, s.capital, leverage,
                                  candle.close_time, Some(stop_loss))
    IN  [s EXCEPT !.capital = Zero,
                  !.contract = Some(contract),
                  !.level = @ + 1,
                  !.max_value = Zero]

\* Roll_update_open opening the contract without moving to its level
\* (faulty variant)
Roll_update_open_keeps_level(s, candle) ==
    IF s.contract # None THEN s
    ELSE IF s.level >= Len(s.config) THEN s
    ELSE
    LET leverage == s.config[s.level + 1][1]
        stop_loss == Roll_stop_loss(s.is_bull, candle.close, leverage)
        contract == Contract_open(s.is_bull, candle.close, s.capital, leverage,
                                  candle.close_time, Some(stop_loss))
    IN  [s EXCEPT !.capital = Zero,
                  !.contract = Some(contract)]

\* Roll_update_open leaving the capital in place beside the contract (faulty variant)
Roll_update_open_keeps_capital(s, candle) ==
    IF s.contract # None THEN s
    ELSE IF s.level >= Len(s.config) THEN s
    ELSE
    LET leverage == s.config[s.level + 1][1]
        stop_loss == Roll_stop_loss(s.is_bull, candle.close, leverage)
        contract == Contract_open(s.is_bull, candle.close, s.capital, leverage,
                                  candle.close_time, Some(stop_loss))
    IN  [s EXCEPT !.contract = Some(contract),
                  !.level = @ + 1]

\* Roll_update_open ending the run once no level remains (faulty variant)
Roll_update_open_finishes(s, candle) ==
    IF s.contract # None THEN s
    ELSE IF s.level >= Len(s.config) THEN [s EXCEPT !.status = "Successed"]
    ELSE
    LET leverage == s.config[s.level + 1][1]
        stop_loss == Roll_stop_loss(s.is_bull, candle.close, leverage)
        contract == Contract_open(s.is_bull, candle.close, s.capital, leverage,
                                  candle.close_time, Some(stop_loss))
    IN  [s EXCEPT !.capital = Zero,
                  !.contract = Some(contract),
                  !.level = @ + 1]

\* update, from `if self.contract.is_some()` to the end: open the next level
Roll_update_open(s, candle) ==
    IF s.contract # None THEN s
    ELSE IF s.level >= Len(s.config) THEN s
    ELSE
    LET leverage == s.config[s.level + 1][1]      \* self.config.0[self.level].0
        stop_loss == Roll_stop_loss(s.is_bull, candle.close, leverage)
        contract == Contract_open(s.is_bull, candle.close, s.capital, leverage,
                                  candle.close_time, Some(stop_loss))
    IN  [s EXCEPT !.capital = Zero,
                  !.contract = Some(contract),
                  !.level = @ + 1]

\* Roll_update_processing opening the next level even after update has returned
\* (faulty variant)
Roll_update_processing_ignores_return(s, candle) ==
    Roll_update_open(Roll_update_held(s, candle).st, candle)

\* Roll_update_processing leaving the strategy flat after any exit (faulty variant)
Roll_update_processing_flat_after_exit(s, candle) ==
    LET h == Roll_update_held(s, candle)
    IN  IF h.ret \/ s.contract # None THEN h.st ELSE Roll_update_open(h.st, candle)

\* update once the held contract is dealt with (h is the outcome of
\* Roll_update_held): a `return` taken there ends the call, otherwise the next
\* level opens
Roll_update_rest(h, candle) ==
    IF h.ret THEN h.st ELSE Roll_update_open(h.st, candle)

\* update while status = Processing
Roll_update_processing(s, candle) ==
    Roll_update_rest(Roll_update_held(s, candle), candle)

\* Roll_update without the status guard (faulty variant)
Roll_update_no_guard(s, candle) == Roll_update_processing(s, candle)

\* RollOnceStrategy::update
Roll_update(s, candle) ==
    IF s.status # "Processing" THEN s ELSE Roll_update_processing(s, candle)

\* Roll_close leaving the contract open (faulty variant)
Roll_close_keeps_contract(s, price) == [s EXCEPT !.status = "Aborted"]

\* RollOnceStrategy::close: the strategy afterwards; the call returns its capital
Roll_close(s, price) ==
    [s EXCEPT !.contract = None,
              !.capital = IF s.contract # None
                          THEN RAdd(@, Contract_close(s.contract[1], price))
                          ELSE @,
              !.status = "Aborted"]

----------------------------------------------------------------------------
(* strategy/geo_strategy.rs                                                *)
(* Times (OffsetDateTime) and the interval (Duration) are integers.        *)

\* GeoStrategy::new; last_time is the unix epoch
Geo_new(is_bull_, leverage_, ratio_, interval_, supply_, stop_loss_, take_profit_) ==
    [is_bull |-> is_bull_,
     leverage |-> leverage_,
     interval |-> interval_,
     ratio |-> ratio_,
     supply |-> supply_,
     stop_loss_ratio |-> stop_loss_,
     take_profit_ratio |-> take_profit_,
     position |-> None,
     capital |-> Zero,
     stake |-> Zero,
     cost |-> Zero,
     open_count |-> 0,
     last_time |-> 0]

\* GeoStrategy::value
Geo_value(g) ==
    IF g.position # None
    THEN RAdd(RAdd(g.position[1].margin, g.capital), g.stake)
    ELSE RAdd(g.capital, g.stake)

\* the take-profit price condition of update on contract
Geo_take_profit(g, contract, candle) ==
    \/ (g.is_bull
        /\ RGt(candle.close,
               RMul(contract.entry_price, RAdd(One, g.take_profit_ratio))))
    \/ (~g.is_bull
        /\ RLt(candle.close,
               RMul(contract.entry_price, RSub(One, g.take_profit_ratio))))

\* Geo_update_held starting the reopen interval anew at a take-profit
\* (faulty variant)
Geo_update_held_profit_restarts(g, candle) ==
    IF g.position = None THEN g
    ELSE
    LET contract == g.position[1]
        g0 == [g EXCEPT !.position = None]
        r == Contract_liquidate(contract, IF g.is_bull THEN candle.low ELSE candle.high)
    IN  IF r # None
        THEN [g0 EXCEPT !.capital = RAdd(@, r[1])]
        ELSE IF /\ contract.open_time + g.interval <= candle.close_time
                /\ Geo_take_profit(g, contract, candle)
        THEN [g0 EXCEPT !.capital = RAdd(@, Contract_close(contract, candle.close)),
                        !.last_time = candle.close_time]
        ELSE g

\* Geo_update_held taking profit whether or not the interval has elapsed
\* (faulty variant)
Geo_update_held_profit_any_time(g, candle) ==
    IF g.position = None THEN g
    ELSE
    LET contract == g.position[1]
        g0 == [g EXCEPT !.position = None]
        r == Contract_liquidate(contract, IF g.is_bull THEN candle.low ELSE candle.high)
    IN  IF r # None
        THEN [g0 EXCEPT !.capital = RAdd(@, r[1])]
        ELSE IF Geo_take_profit(g, contract, candle)
        THEN [g0 EXCEPT !.capital = RAdd(@, Contract_close(contract, candle.close))]
        ELSE g

\* Geo_update_held testing the take-profit before the liquidation (faulty variant)
Geo_update_held_profit_first(g, candle) ==
    IF g.position = None THEN g
    ELSE
    LET contract == g.position[1]
        g0 == [g EXCEPT !.position = None]
        r == Contract_liquidate(contract, IF g.is_bull THEN candle.low ELSE candle.high)
    IN  IF /\ contract.open_time + g.interval <= candle.close_time
           /\ Geo_take_profit(g, contract, candle)
        THEN [g0 EXCEPT !.capital = RAdd(@, Contract_close(contract, candle.close))]
        ELSE IF r # None
        THEN [g0 EXCEPT !.capital = RAdd(@, r[1])]
        ELSE g

\* update, `if let Some(contract) = self.position.take() { .. }`
Geo_update_held(g, candle) ==
    IF g.position = None THEN g
    ELSE
    LET contract == g.position[1]
        g0 == [g EXCEPT !.position = None]
        r == Contract_liquidate(contract, IF g.is_bull THEN candle.low ELSE candle.high)
    IN  IF r # None
        THEN [g0 EXCEPT !.capital = RAdd(@, r[1])]
        ELSE IF /\ contract.open_time + g.interval <= candle.close_time
                /\ Geo_take_profit(g, contract, candle)
        THEN [g0 EXCEPT !.capital = RAdd(@, Contract_close(contract, candle.close))]
        ELSE g

\* Geo_returns_early without the interval test (faulty variant)
Geo_returns_early_ignores_interval(g, candle) == g.position # None

\* update, `if self.position.is_some() || self.last_time + self.interval > ..`
Geo_returns_early(g, candle) ==
    g.position # None \/ g.last_time + g.interval > candle.close_time

\* let cost = self.supply - self.capital; let supplement = cost - self.stake
Geo_cost(g) == RSub(g.supply, g.capital)
Geo_supplement(g) == RSub(Geo_cost(g), g.stake)

\* update reaches `self.total_capital.lock()`
Geo_draws(g) == RLt(g.capital, g.supply) /\ RLt(g.stake, Geo_cost(g))

\* Pool_insufficient accepting every draw (faulty variant)
Pool_insufficient_never(total, supplement) == FALSE

\* if *total_capital < supplement { panic!(..) }
Pool_insufficient(total, supplement) == RLt(total, supplement)

\* Geo_record leaving the cumulative cost as it was (faulty variant)
Geo_record_no_cost(g) == [g EXCEPT !.stake = Geo_cost(g)]

\* self.stake = cost; self.cost += supplement
Geo_record(g) ==
    [g EXCEPT !.stake = Geo_cost(g),
              !.cost = RAdd(@, Geo_supplement(g))]

\* Geo_top_up leaving in the stake what it moved there (faulty variant)
Geo_top_up_keeps_stake(g) ==
    IF RLt(g.capital, g.supply)
    THEN [g EXCEPT !.capital = g.supply]
    ELSE g

\* Geo_top_up leaving the capital below the floor (faulty variant)
Geo_top_up_skipped(g) == g

\* self.stake -= cost; self.capital = self.supply  (inside `if self.capital < self.supply`)
Geo_top_up(g) ==
    IF RLt(g.capital, g.supply)
    THEN [g EXCEPT !.stake = RSub(@, Geo_cost(g)),
                   !.capital = g.supply]
    ELSE g

\* Geo_open leaving the time of the last open as it was (faulty variant)
Geo_open_keeps_last_time(g, candle) ==
    LET stop_loss == IF g.is_bull
                     THEN RMul(RSub(One, g.stop_loss_ratio), candle.close)
                     ELSE RMul(RAdd(One, g.stop_loss_ratio), candle.close)
        contract == Contract_open(g.is_bull, candle.close, RMul(g.capital, g.ratio),
                                  g.leverage, candle.close_time, Some(stop_loss))
    IN  [g EXCEPT !.position = Some(contract),
                  !.capital = RSub(@, RMul(@, g.ratio)),
                  !.open_count = @ + 1]

\* update, from `let stop_loss` to the end
Geo_open(g, candle) ==
    LET stop_loss == IF g.is_bull
                     THEN RMul(RSub(One, g.stop_loss_ratio), candle.close)
                     ELSE RMul(RAdd(One, g.stop_loss_ratio), candle.close)
        contract == Contract_open(g.is_bull, candle.close, RMul(g.capital, g.ratio),
                                  g.leverage, candle.close_time, Some(stop_loss))
    IN  [g EXCEPT !.position = Some(contract),
                  !.capital = RSub(@, RMul(@, g.ratio)),
                  !.last_time = candle.close_time,
                  !.open_count = @ + 1]

\* Geo_close leaving the position open (faulty variant)
Geo_close_keeps_position(g, price) == g

\* GeoStrategy::close: the strategy afterwards; the call returns its value()
Geo_close(g, price) ==
    IF g.position # None
    THEN [g EXCEPT !.position = None,
                   !.capital = RAdd(@, Contract_close(g.position[1], price))]
    ELSE g

----------------------------------------------------------------------------
(* candle_chart.rs                                                         *)

\* CandleChart::new: candles: vec![]
Chart_new == <<>>

\* Ord for CandleData: cmp compares close_time alone; a is not after b
Candle_le(a, b) == a.close_time <= b.close_time

\* one candle put into its place in the sorted cs: after every candle that is
\* not after it (Vec::sort is stable)
Chart_insert(cs, c) ==
    LET before == SelectSeq(cs, LAMBDA x : Candle_le(x, c))
        after == SelectSeq(cs, LAMBDA x : ~Candle_le(x, c))
    IN  before \o <<c>> \o after

\* chart.candles.sort()
RECURSIVE Chart_sort(_)
Chart_sort(cs) ==
    IF cs = <<>> THEN <<>>
    ELSE Chart_insert(Chart_sort(SubSeq(cs, 1, Len(cs) - 1)), cs[Len(cs)])

----------------------------------------------------------------------------
(* strategy/roll_strategy.rs: RollJudge                                    *)

\* RollJudge::new; index 0 of the VecDeque is the head of cache
Judge_new(max_length) == [cache |-> <<>>, max_length |-> max_length]

\* VecDeque::pop_back: drops the last element, does nothing on an empty deque
Pop_back(cache) ==
    IF cache = <<>> THEN cache ELSE SubSeq(cache, 1, Len(cache) - 1)

\* Judge_update without the eviction (faulty variant)
Judge_update_no_evict(j, candle) == [j EXCEPT !.cache = <<candle>> \o @]

\* RollJudge::update
Judge_update(j, candle) ==
    [j EXCEPT !.cache = <<candle>> \o (IF Len(@) >= j.max_length THEN Pop_back(@) ELSE @)]

----------------------------------------------------------------------------
(* State                                                                   *)

VARIABLES
    k_args,         \* the arguments of the last Contract::open call, None before it
    k_contract,     \* Option<Contract>: the Contract that call returned
    k_op,           \* the last call on the contract: "none", "open", "liquidate", "close"
    k_price,        \* the price argument of the last liquidate / close call
    k_result,       \* what that call returned (Option<f64> of liquidate, f64 of close)
    strategy,       \* the RollOnceStrategy struct
    strategy_pre,   \* the struct as it was when the last call on it began
    roll_op,        \* the last call on the strategy: "new", "update", "close"
    roll_arg,       \* the candle (update) or [price |-> price] (close) of that call
    roll_ret,       \* Some(returned f64) after close, None otherwise
    now,            \* close_time of the last candle fed to the strategy
    rising_run,     \* the calls so far are updates only, fed a rising candle
                    \* sequence that cleared the take-profit of every contract held
    geo,            \* the GeoStrategy structs, one per thread
    geo_pc,         \* where each thread is: "idle" between calls, inside update at
                    \* "lock" (calling lock()), "check" (guard held, before the
                    \* balance test), "record" (balance decremented), "open" (guard
                    \* dropped, before the top-up assignments), or "panicked"
    geo_hist,       \* per thread: the last call (op, the struct when it began, its
                    \* argument, what it returned), the call before it, and the
                    \* pool balance that call found at its balance test
    geo_now,        \* per thread: close_time of the last candle fed
    total_capital,  \* the f64 inside the shared Arc<Mutex<f64>>
    pool_lock,      \* the thread holding the MutexGuard, 0 when none
    pool_poisoned,  \* a thread panicked while holding the guard
    pool_initial,   \* the balance the pool was constructed with
    drv_kind,       \* the driver under way: "roll", "geo" or "none"
    drv_pc,         \* the driver is in its "loop", before its final "close",
                    \* "done", or "aborted" by a panic
    drv_left,       \* candles of the driver's chart not yet fed
    chart_candles,  \* chart.candles of the CandleChart that read_from_csv builds
    chart_pc,       \* read_from_csv is "reading" rows, or "done" (it has returned)
    judge,          \* the RollJudge struct
    judge_fed       \* every candle passed to RollJudge::update so far, oldest first

kvars == <<k_args, k_contract, k_op, k_price, k_result>>
rollvars == <<strategy, strategy_pre, roll_op, roll_arg, roll_ret, now, rising_run>>
geovars == <<geo, geo_pc, geo_hist, geo_now,
             total_capital, pool_lock, pool_poisoned, pool_initial>>
drvvars == <<drv_kind, drv_pc, drv_left>>
toolvars == <<chart_candles, chart_pc, judge, judge_fed>>
vars == <<k_args, k_contract, k_op, k_price, k_result,
          strategy, strategy_pre, roll_op, roll_arg, roll_ret, now, rising_run,
          geo, geo_pc, geo_hist, geo_now,
          total_capital, pool_lock, pool_poisoned, pool_initial,
          drv_kind, drv_pc, drv_left,
          chart_candles, chart_pc, judge, judge_fed>>

----------------------------------------------------------------------------
(* Inputs                                                                  *)

\* number of candles fed to one strategy
MaxTime == 3

\* entry prices offered to Contract::open; the negative one is an invalid argument.
\* A zero entry price or leverage makes the f64 divisions of open yield infinities
\* or NaN, which exact rationals do not represent; they are left out.
EntryPrices == {Rat(100, 1), Rat(-100, 1)}

\* offered balances; zero and the negative one are invalid arguments
OfferedBalances == {Rat(100, 1), Zero, Rat(-50, 1)}

\* leverages; 1/2 is an invalid argument, 250 and 300 exceed 1 / maintenance rate
Leverages ==
    {Rat(1, 2), One, Rat(2, 1), Rat(100, 1), Rat(200, 1), Rat(250, 1), Rat(300, 1)}

\* stop-loss arguments: 99.4 and 100.6 are the liquidation prices of a long and a
\* short at leverage 100 entered at 100
StopLosses ==
    {None} \cup {Some(x) : x \in {Rat(50, 1), Rat(99, 1), Rat(994, 10), Rat(999, 10),
                                  Rat(1001, 10), Rat(1006, 10), Rat(101, 1), Rat(150, 1)}}

\* prices handed to liquidate and close
ContractPrices ==
    {Rat(9, 1), Rat(50, 1), Rat(994, 10), Rat(999, 10), Rat(100, 1),
     Rat(1001, 10), Rat(1006, 10), Rat(150, 1), Rat(250, 1)}

\* ladder levels (leverage, take_profit, max_draw) of RollConfig::default
Level25 == <<Rat(25, 1), Rat(4, 100), None>>
Level20 == <<Rat(20, 1), Rat(5, 100), None>>
Level2 == <<Rat(2, 1), Rat(5, 10), Some(Rat(6, 10))>>

\* a level RollConfig::new accepts: at leverage 300 (above 0.99 / 0.004 = 247.5)
\* the stop-loss update computes lies beyond the entry price
Level300 == <<Rat(300, 1), Rat(4, 100), None>>

\* the ladders a strategy is constructed with (RollConfig::new takes any vector)
Ladders ==
    {<<>>, <<Level25>>, <<Level2>>, <<Level300>>,
     <<Level25, Level20>>, <<Level25, Level2>>, <<Level2, Level25>>}

\* prices of the candles and of a forced close
RollPrices == {Rat(50, 1), Rat(100, 1), Rat(200, 1)}

\* the candles closing at time t: low <= close <= high
Candles(t) ==
    {[low |-> l, close |-> c, high |-> h, close_time |-> t] :
        <<l, c, h>> \in {x \in RollPrices \X RollPrices \X RollPrices :
                            RLe(x[1], x[2]) /\ RLe(x[2], x[3])}}

\* the capital handed to RollOnceStrategy::new; every amount of the strategy is
\* proportional to it, and one unit keeps the exact fractions within TLC's integers
InitialCapital == Rat(1, 1)

\* the threads, each owning one GeoStrategy on the shared pool
GeoIds == {1, 2}

\* number of candles fed to one GeoStrategy, one per unit of time
GeoMaxTime == 4

\* the arguments of GeoStrategy::new: those of strategy_from_csv (leverage 10,
\* ratio 1, supply 10, stop-loss 3%, take-profit 0.2%) with the interval as two
\* candle periods, a half-ratio variant, and a short variant; the second thread
\* is constructed as in strategy_from_csv
GeoTestConfig ==
    [is_bull |-> TRUE, leverage |-> Rat(10, 1), ratio |-> One, interval |-> 2,
     supply |-> Rat(10, 1), stop_loss_ratio |-> Rat(3, 100),
     take_profit_ratio |-> Rat(2, 1000)]
GeoConfigs ==
    {GeoTestConfig,
     [is_bull |-> TRUE, leverage |-> Rat(10, 1), ratio |-> Rat(1, 2), interval |-> 2,
      supply |-> Rat(10, 1), stop_loss_ratio |-> Rat(3, 100),
      take_profit_ratio |-> Rat(2, 1000)],
     [is_bull |-> FALSE, leverage |-> Rat(10, 1), ratio |-> One, interval |-> 2,
      supply |-> Rat(10, 1), stop_loss_ratio |-> Rat(3, 100),
      take_profit_ratio |-> Rat(2, 1000)]}

\* balances the shared pool is constructed with: ample, and short of two floors
PoolBalances == {Rat(100, 1), Rat(15, 1)}

\* (low, close, high) of the candles fed to a GeoStrategy: flat, rising, a dip
\* below every stop-loss followed by a rise; and the
\* prices handed to close
GeoShapes ==
    {<<One, One, One>>, <<One, Rat(2, 1), Rat(2, 1)>>,
     <<Rat(1, 2), Rat(2, 1), Rat(2, 1)>>}
GeoCandles(t) ==
    {[low |-> x[1], close |-> x[2], high |-> x[3], close_time |-> t] : x \in GeoShapes}
GeoPrices == {One, Rat(2, 1)}

\* rows of the csv files read_from_csv is given: at most MaxRows of them, in
\* file order, each with a close_time and a close price
MaxRows == 3
CsvRows == [close_time : 1..3, close : {1, 2}]

\* window lengths a RollJudge is constructed with (max_length: usize)
JudgeLengths == 0..3

\* candles fed to one RollJudge: MaxFed of them, close_time counting up
MaxFed == 5
JudgeHighs == {1, 2}

----------------------------------------------------------------------------
(* Contract: open, then any number of liquidate and close calls            *)

KInit ==
    /\ k_args = None
    /\ k_contract = None
    /\ k_op = "none"
    /\ k_price = None
    /\ k_result = None

ContractOpen ==
    /\ k_op = "none"
    /\ \E b \in BOOLEAN, e \in EntryPrices, o \in OfferedBalances,
          l \in Leverages, sl \in StopLosses :
          /\ k_args' = Some([is_bull |-> b, entry_price |-> e, offered_balance |-> o,
                             leverage |-> l, stop_loss |-> sl])
          /\ k_contract' = Some(Contract_open(b, e, o, l, 0, sl))
    /\ k_op' = "open"
    /\ k_price' = None
    /\ k_result' = None
    /\ UNCHANGED <<rollvars, geovars, drvvars, toolvars>>

ContractLiquidate ==
    /\ k_contract # None
    /\ \E p \in ContractPrices :
          /\ k_price' = Some(p)
          /\ k_result' = Contract_liquidate(k_contract[1], p)
    /\ k_op' = "liquidate"
    /\ UNCHANGED <<k_args, k_contract>>
    /\ UNCHANGED <<rollvars, geovars, drvvars, toolvars>>

ContractClose ==
    /\ k_contract # None
    /\ \E p \in ContractPrices :
          /\ k_price' = Some(p)
          /\ k_result' = Contract_close(k_contract[1], p)
    /\ k_op' = "close"
    /\ UNCHANGED <<k_args, k_contract>>
    /\ UNCHANGED <<rollvars, geovars, drvvars, toolvars>>

----------------------------------------------------------------------------
(* RollOnceStrategy: new, then any sequence of update and close calls      *)

\* the take-profit test of update on the contract the strategy holds
ClearsTakeProfit(s, candle) ==
    LET contract == s.contract[1]
        take_profit == s.config[s.level][2]
    IN  \/ (s.is_bull
            /\ RGt(candle.close, RMul(contract.entry_price, RAdd(One, take_profit))))
        \/ (~s.is_bull
            /\ RLt(candle.close, RMul(contract.entry_price, RSub(One, take_profit))))

\* candle continues a rising sequence after prev: no price of it is below the
\* close of prev
RisingAfter(prev, candle) == RGe(candle.low, prev.close)

RollInit ==
    /\ \E b \in BOOLEAN, cfg \in Ladders : strategy = Roll_new(b, InitialCapital, cfg)
    /\ strategy_pre = strategy
    /\ roll_op = "new"
    /\ roll_arg = None
    /\ roll_ret = None
    /\ now = 0
    /\ rising_run = TRUE

RollUpdateCall ==
    /\ now < MaxTime
    /\ \E candle \in Candles(now + 1) :
          /\ strategy' = Roll_update(strategy, candle)
          /\ roll_arg' = Some(candle)
          /\ rising_run' = (/\ rising_run
                            /\ roll_op = "update" => RisingAfter(roll_arg[1], candle)
                            /\ strategy.contract # None
                                 => ClearsTakeProfit(strategy, candle))
    /\ strategy_pre' = strategy
    /\ roll_op' = "update"
    /\ roll_ret' = None
    /\ now' = now + 1

RollUpdate == RollUpdateCall /\ UNCHANGED <<kvars, geovars, drvvars, toolvars>>

RollCloseCall(price) ==
    /\ strategy' = Roll_close(strategy, price)
    /\ roll_arg' = Some([price |-> price])
    /\ strategy_pre' = strategy
    /\ roll_op' = "close"
    /\ roll_ret' = Some(strategy'.capital)
    /\ rising_run' = FALSE
    /\ UNCHANGED <<now>>

RollClose ==
    /\ \E price \in RollPrices : RollCloseCall(price)
    /\ UNCHANGED <<kvars, geovars, drvvars, toolvars>>

----------------------------------------------------------------------------
(* GeoStrategy threads on one shared pool                                  *)

GeoHist0(g) ==
    [op |-> "new", pre |-> g, arg |-> None, ret |-> None,
     prev_ret |-> None, pool_at_check |-> None]

GeoInitWith(pools) ==
    /\ \E cfg \in {c \in [GeoIds -> GeoConfigs] : c[2] = GeoTestConfig} :
          geo = [i \in GeoIds |->
                   Geo_new(cfg[i].is_bull, cfg[i].leverage, cfg[i].ratio, cfg[i].interval,
                           cfg[i].supply, cfg[i].stop_loss_ratio,
                           cfg[i].take_profit_ratio)]
    /\ geo_pc = [i \in GeoIds |-> "idle"]
    /\ geo_hist = [i \in GeoIds |-> GeoHist0(geo[i])]
    /\ geo_now = [i \in GeoIds |-> 0]
    /\ total_capital \in pools
    /\ pool_lock = 0
    /\ pool_poisoned = FALSE
    /\ pool_initial = total_capital

GeoInit == GeoInitWith(PoolBalances)

\* update from its first line to its return, or to the call of lock()
GeoUpdateCall(i) ==
    /\ geo_pc[i] = "idle"
    /\ geo_now[i] < GeoMaxTime
    /\ \E t \in {geo_now[i] + 1} : \E candle \in GeoCandles(t) :
          LET g1 == Geo_update_held(geo[i], candle)
          IN  /\ geo_hist' = [geo_hist EXCEPT ![i] =
                                 [op |-> "update", pre |-> geo[i], arg |-> Some(candle),
                                  ret |-> None, prev_ret |-> @.ret,
                                  pool_at_check |-> None]]
              /\ geo_now' = [geo_now EXCEPT ![i] = t]
              /\ IF Geo_returns_early(g1, candle)
                 THEN /\ geo' = [geo EXCEPT ![i] = g1]
                      /\ geo_pc' = geo_pc
                 ELSE IF Geo_draws(g1)
                 THEN /\ geo' = [geo EXCEPT ![i] = g1]
                      /\ geo_pc' = [geo_pc EXCEPT ![i] = "lock"]
                 ELSE /\ geo' = [geo EXCEPT ![i] = Geo_open(Geo_top_up(g1), candle)]
                      /\ geo_pc' = geo_pc
    /\ UNCHANGED <<total_capital, pool_lock, pool_poisoned, pool_initial>>

\* self.total_capital.lock().unwrap(): waits while another thread holds the
\* guard; on a poisoned mutex lock() returns Err and unwrap panics
GeoLockCall(i) ==
    /\ geo_pc[i] = "lock"
    /\ pool_lock = 0
    /\ IF pool_poisoned
       THEN /\ geo_pc' = [geo_pc EXCEPT ![i] = "panicked"]
            /\ pool_lock' = 0
       ELSE /\ geo_pc' = [geo_pc EXCEPT ![i] = "check"]
            /\ pool_lock' = i
    /\ UNCHANGED <<geo, geo_hist, geo_now, total_capital, pool_poisoned,
                   pool_initial>>

\* the balance test and the decrement; the panic unwinds through the guard,
\* which unlocks and poisons the mutex
GeoCheckCall(i) ==
    /\ geo_pc[i] = "check"
    /\ geo_hist' = [geo_hist EXCEPT ![i].pool_at_check = Some(total_capital)]
    /\ IF Pool_insufficient(total_capital, Geo_supplement(geo[i]))
       THEN /\ geo_pc' = [geo_pc EXCEPT ![i] = "panicked"]
            /\ pool_lock' = 0
            /\ pool_poisoned' = TRUE
            /\ total_capital' = total_capital
       ELSE /\ geo_pc' = [geo_pc EXCEPT ![i] = "record"]
            /\ total_capital' = RSub(total_capital, Geo_supplement(geo[i]))
            /\ UNCHANGED <<pool_lock, pool_poisoned>>
    /\ UNCHANGED <<geo, geo_now, pool_initial>>

\* self.stake = cost; self.cost += supplement; the guard is dropped at the `}`
GeoRecordCall(i) ==
    /\ geo_pc[i] = "record"
    /\ geo' = [geo EXCEPT ![i] = Geo_record(@)]
    /\ geo_pc' = [geo_pc EXCEPT ![i] = "open"]
    /\ pool_lock' = 0
    /\ UNCHANGED <<geo_hist, geo_now, total_capital, pool_poisoned,
                   pool_initial>>

\* the rest of update: the top-up assignments and the open
GeoOpenCall(i) ==
    /\ geo_pc[i] = "open"
    /\ geo' = [geo EXCEPT ![i] = Geo_open(Geo_top_up(@), geo_hist[i].arg[1])]
    /\ geo_pc' = [geo_pc EXCEPT ![i] = "idle"]
    /\ UNCHANGED <<geo_hist, geo_now, total_capital, pool_lock,
                   pool_poisoned, pool_initial>>

GeoCloseCall(i, price) ==
    /\ geo_pc[i] = "idle"
    /\ geo' = [geo EXCEPT ![i] = Geo_close(@, price)]
    /\ geo_hist' = [geo_hist EXCEPT ![i] =
                       [op |-> "close", pre |-> geo[i], arg |-> Some([price |-> price]),
                        ret |-> Some(Geo_value(geo'[i])), prev_ret |-> @.ret,
                        pool_at_check |-> None]]
    /\ UNCHANGED <<geo_pc, geo_now, total_capital, pool_lock,
                   pool_poisoned, pool_initial>>

GeoUpdate(i) == GeoUpdateCall(i) /\ UNCHANGED <<kvars, rollvars, drvvars, toolvars>>
GeoLock(i) == GeoLockCall(i) /\ UNCHANGED <<kvars, rollvars, drvvars, toolvars>>
GeoCheck(i) == GeoCheckCall(i) /\ UNCHANGED <<kvars, rollvars, drvvars, toolvars>>
GeoRecord(i) == GeoRecordCall(i) /\ UNCHANGED <<kvars, rollvars, drvvars, toolvars>>
GeoOpen(i) == GeoOpenCall(i) /\ UNCHANGED <<kvars, rollvars, drvvars, toolvars>>
GeoClose(i) ==
    /\ \E price \in GeoPrices : GeoCloseCall(i, price)
    /\ UNCHANGED <<kvars, rollvars, drvvars, toolvars>>

----------------------------------------------------------------------------
(* Specifications                                                          *)

\* the GeoStrategy threads and the drivers of a specification without them
GeoUnused ==
    /\ geo = [i \in GeoIds |->
                Geo_new(TRUE, Rat(10, 1), One, 2, Rat(10, 1), Rat(3, 100), Rat(2, 1000))]
    /\ geo_pc = [i \in GeoIds |-> "idle"]
    /\ geo_hist = [i \in GeoIds |-> GeoHist0(geo[i])]
    /\ geo_now = [i \in GeoIds |-> 0]
    /\ total_capital = Rat(100, 1)
    /\ pool_lock = 0
    /\ pool_poisoned = FALSE
    /\ pool_initial = total_capital

DrvUnused == drv_kind = "none" /\ drv_pc = "done" /\ drv_left = 0

\* the chart and the RollJudge of a specification without them
ChartUnused == chart_candles = Chart_new /\ chart_pc = "done"
JudgeUnused == judge = Judge_new(0) /\ judge_fed = <<>>
ToolUnused == ChartUnused /\ JudgeUnused

\* one Contract under test; the strategy stays as constructed
InitContract ==
    /\ KInit
    /\ strategy = Roll_new(TRUE, InitialCapital, <<>>)
    /\ strategy_pre = strategy
    /\ roll_op = "new"
    /\ roll_arg = None
    /\ roll_ret = None
    /\ now = 0
    /\ rising_run = TRUE
    /\ GeoUnused
    /\ DrvUnused
    /\ ToolUnused

NextContract == ContractOpen \/ ContractLiquidate \/ ContractClose

SpecContract == InitContract /\ [][NextContract]_vars

\* one RollOnceStrategy under arbitrary callers
InitRoll == KInit /\ RollInit /\ GeoUnused /\ DrvUnused /\ ToolUnused

NextRoll == RollUpdate \/ RollClose

SpecRoll == InitRoll /\ [][NextRoll]_vars

\* the strategy of a specification without a RollOnceStrategy
RollUnused ==
    /\ strategy = Roll_new(TRUE, InitialCapital, <<>>)
    /\ strategy_pre = strategy
    /\ roll_op = "new"
    /\ roll_arg = None
    /\ roll_ret = None
    /\ now = 0
    /\ rising_run = TRUE

\* GeoStrategy threads under arbitrary callers, interleaved at the pool accesses
InitGeo == KInit /\ RollUnused /\ GeoInit /\ DrvUnused /\ ToolUnused

NextGeo ==
    \E i \in GeoIds :
        GeoUpdate(i) \/ GeoLock(i) \/ GeoCheck(i) \/ GeoRecord(i) \/ GeoOpen(i)
            \/ GeoClose(i)

SpecGeo == InitGeo /\ [][NextGeo]_vars

\* thread i leaves position `from` of update for one of the positions `tos`:
\* the steps of GeoLock, GeoCheck, GeoRecord and GeoOpen, told by geo_pc alone
GeoLeaves(i, from, tos) ==
    /\ geo_pc[i] = from
    /\ geo_pc' \in {[geo_pc EXCEPT ![i] = t] : t \in tos}

\* the same under fair scheduling: a thread inside update takes its next step,
\* and a thread calling lock() gets the guard if it is free again and again
SpecGeoFair ==
    /\ SpecGeo
    /\ \A i \in GeoIds :
          /\ SF_geo_pc(pool_lock = 0 /\ GeoLeaves(i, "lock", {"check", "panicked"}))
          /\ WF_geo_pc(GeoLeaves(i, "check", {"record", "panicked"}))
          /\ WF_geo_pc(GeoLeaves(i, "record", {"open"}))
          /\ WF_geo_pc(GeoLeaves(i, "open", {"idle"}))

----------------------------------------------------------------------------
(* The drivers: roll_strategy.rs tests, tests/strategy_from_csv.rs         *)

\* pool balances of a driven GeoStrategy: ample, and below one floor
DriverPools == {Rat(100, 1), Rat(5, 1)}

\* the chart has 1 .. MaxTime candles (1 .. GeoMaxTime for a GeoStrategy)
DriverInit ==
    /\ KInit
    /\ ToolUnused
    /\ drv_pc = "loop"
    /\ \/ /\ drv_kind = "roll"
          /\ RollInit
          /\ GeoUnused
          /\ drv_left \in 1..MaxTime
       \/ /\ drv_kind = "geo"
          /\ RollUnused
          /\ GeoInitWith(DriverPools)
          /\ drv_left \in 1..GeoMaxTime

\* one turn of `for c in chart.candles.iter()`: update, then break on a
\* status other than Processing; the loop also ends with the last candle
DriverRollUpdate ==
    /\ drv_kind = "roll"
    /\ drv_pc = "loop"
    /\ RollUpdateCall
    /\ drv_left' = drv_left - 1
    /\ drv_pc' = IF strategy'.status # "Processing" \/ drv_left' = 0
                 THEN "close" ELSE "loop"
    /\ UNCHANGED <<drv_kind, kvars, geovars, toolvars>>

\* if strategy.status == Processing { strategy.close(last candle's close) }
DriverRollClose ==
    /\ drv_kind = "roll"
    /\ drv_pc = "close"
    /\ IF strategy.status = "Processing"
       THEN RollCloseCall(roll_arg[1].close)
       ELSE UNCHANGED rollvars
    /\ drv_pc' = "done"
    /\ UNCHANGED <<drv_kind, drv_left, kvars, geovars, toolvars>>

\* one turn of `for (i, candle) in chart.candles.iter().enumerate()`: the
\* call of update, up to its return or to its call of lock()
DriverGeoUpdate ==
    /\ drv_kind = "geo"
    /\ drv_pc = "loop"
    /\ drv_left > 0
    /\ GeoUpdateCall(1)
    /\ drv_left' = drv_left - 1
    /\ UNCHANGED <<drv_kind, drv_pc, kvars, rollvars, toolvars>>

\* the steps of that update at the pool; its panic ends the program
DriverGeoStep ==
    /\ drv_kind = "geo"
    /\ drv_pc = "loop"
    /\ GeoLockCall(1) \/ GeoCheckCall(1) \/ GeoRecordCall(1) \/ GeoOpenCall(1)
    /\ drv_pc' = IF geo_pc'[1] = "panicked" THEN "aborted" ELSE "loop"
    /\ UNCHANGED <<drv_kind, drv_left, kvars, rollvars, toolvars>>

\* strategy.close(chart.candles.last().unwrap().close)
DriverGeoClose ==
    /\ drv_kind = "geo"
    /\ drv_pc = "loop"
    /\ drv_left = 0
    /\ GeoCloseCall(1, geo_hist[1].arg[1].close)
    /\ drv_pc' = "done"
    /\ UNCHANGED <<drv_kind, drv_left, kvars, rollvars, toolvars>>

NextDriver ==
    \/ DriverRollUpdate
    \/ DriverRollClose
    \/ DriverGeoUpdate
    \/ DriverGeoStep
    \/ DriverGeoClose

\* the driver has not ended and takes a step: every step of NextDriver feeds a
\* candle, moves the driver, or moves the update under way
DriverSteps ==
    /\ drv_pc \in {"loop", "close"}
    /\ drv_pc' \in {"loop", "close", "done", "aborted"}
    /\ drv_left' \in {drv_left, drv_left - 1}
    /\ geo_pc' \in {[geo_pc EXCEPT ![1] = t] :
                       t \in {"idle", "lock", "check", "record", "open", "panicked"}}

\* the driver is one sequential program: while it has not ended it takes its
\* next step
SpecDriver ==
    DriverInit /\ [][NextDriver]_vars /\ WF_<<drv_pc, drv_left, geo_pc>>(DriverSteps)

----------------------------------------------------------------------------
(* CandleChart::read_from_csv                                              *)

\* one csv record read and pushed (every file read is appended to
\* chart.candles in turn)
ChartRead ==
    /\ chart_pc = "reading"
    /\ Len(chart_candles) < MaxRows
    /\ \E row \in CsvRows : chart_candles' = Append(chart_candles, row)
    /\ UNCHANGED <<chart_pc, judge, judge_fed>>
    /\ UNCHANGED <<kvars, rollvars, geovars, drvvars>>

\* the files are exhausted: chart.candles.sort(), and the chart is returned
ChartSort ==
    /\ chart_pc = "reading"
    /\ chart_candles' = Chart_sort(chart_candles)
    /\ chart_pc' = "done"
    /\ UNCHANGED <<judge, judge_fed>>
    /\ UNCHANGED <<kvars, rollvars, geovars, drvvars>>

InitChart ==
    /\ KInit /\ RollUnused /\ GeoUnused /\ DrvUnused /\ JudgeUnused
    /\ chart_candles = Chart_new
    /\ chart_pc = "reading"

NextChart == ChartRead \/ ChartSort

SpecChart == InitChart /\ [][NextChart]_vars

----------------------------------------------------------------------------
(* RollJudge: new, then any sequence of update calls                       *)

JudgeUpdate ==
    /\ Len(judge_fed) < MaxFed
    /\ \E h \in JudgeHighs :
          LET candle == [close_time |-> Len(judge_fed) + 1, high |-> h]
          IN  /\ judge' = Judge_update(judge, candle)
              /\ judge_fed' = Append(judge_fed, candle)
    /\ UNCHANGED <<chart_candles, chart_pc>>
    /\ UNCHANGED <<kvars, rollvars, geovars, drvvars>>

InitJudge ==
    /\ KInit /\ RollUnused /\ GeoUnused /\ DrvUnused /\ ChartUnused
    /\ \E n \in JudgeLengths : judge = Judge_new(n)
    /\ judge_fed = <<>>

NextJudge == JudgeUpdate

SpecJudge == InitJudge /\ [][NextJudge]_vars

----------------------------------------------------------------------------
(* Properties of Contract, checked under SpecContract                      *)

\* the arguments and the result of the Contract::open call of the current state
Args == k_args[1]
Ctr == k_contract[1]

\* `price` has crossed `trigger` for a position of this direction
Crossed(is_bull_, price, trigger) ==
    IF is_bull_ THEN RLt(price, trigger) ELSE RGt(price, trigger)

\* the arguments the specification calls valid
ValidArgs(a) ==
    /\ RGe(a.leverage, One)
    /\ RGt(a.entry_price, Zero)
    /\ RGt(a.offered_balance, Zero)

\* C1 as stated: for every leverage >= 1 and entry_price > 0 the liquidation price
\* of a long lies strictly between 0 and entry_price, that of a short strictly
\* above entry_price (shown false already among the calls with a positive balance).
C1_LiqPriceSide_AnyLeverage ==
    (/\ k_contract # None
     /\ RGe(Args.leverage, One)
     /\ RGt(Args.entry_price, Zero)
     /\ RGt(Args.offered_balance, Zero))
        => IF Ctr.is_bull
           THEN RLt(Zero, Ctr.liq_price) /\ RLt(Ctr.liq_price, Ctr.entry_price)
           ELSE RGt(Ctr.liq_price, Ctr.entry_price)

\* C1 amended: the same for 1 <= leverage < 250, i.e. while 1/leverage exceeds the
\* maintenance rate 0.004; at leverage 250 the liquidation price is the entry price
\* and above 250 it lies on the other side of it.
C1_LiqPriceSide ==
    (/\ k_contract # None
     /\ RGe(Args.leverage, One)
     /\ RLt(Args.leverage, Rat(250, 1))
     /\ RGt(Args.entry_price, Zero))
        => IF Ctr.is_bull
           THEN RLt(Zero, Ctr.liq_price) /\ RLt(Ctr.liq_price, Ctr.entry_price)
           ELSE RGt(Ctr.liq_price, Ctr.entry_price)

C1_Witness ==
    /\ k_op = "open"
    /\ Args.leverage = Rat(200, 1)
    /\ RGt(Args.entry_price, Zero)
    /\ Ctr.is_bull
    /\ RLt(Ctr.liq_price, Ctr.entry_price)

\* the call of contract_test: open(true, 100., 100., 100., _, Some(99.9)), liquidate(9.)
InContractTest ==
    /\ k_op = "liquidate"
    /\ Args = [is_bull |-> TRUE, entry_price |-> Rat(100, 1),
               offered_balance |-> Rat(100, 1), leverage |-> Rat(100, 1),
               stop_loss |-> Some(Rat(999, 10))]
    /\ k_price = Some(Rat(9, 1))

\* C2 as stated: in the scenario of contract_test, liquidate(9.0) returns Some(v)
\* with v = 0.85 x the unpenalized cover value at the liquidation price.
C2_ScenarioHaircut ==
    InContractTest
        => k_result = Some(RMul(Contract_cover(Ctr, Ctr.liq_price), LIQUIDATION_FACTOR))

\* C2 amended: in that scenario liquidate(9.0) returns Some(v) with v the cover value
\* at the stop-loss 99.9 (= 44001/510), without the 15% haircut: the stop-loss 99.9
\* is kept (the liquidation price is 99.4) and is tested first.
C2_ScenarioStopLoss ==
    InContractTest
        => /\ Ctr.liq_price = Rat(994, 10)
           /\ Ctr.stop_loss = Some(Rat(999, 10))
           /\ k_result = Some(Contract_cover(Ctr, Rat(999, 10)))
           /\ k_result = Some(Rat(44001, 510))

C2_Witness == InContractTest /\ k_result # None

\* C3: liquidate tests the stop-loss before the liquidation price: for a contract
\* that retains a stop-loss and a price that has crossed both the stop-loss and
\* the liquidation price, the value returned is the cover value at the stop-loss,
\* without the haircut.
C3_StopLossFirst ==
    (/\ k_op = "liquidate"
     /\ Ctr.stop_loss # None
     /\ Crossed(Ctr.is_bull, k_price[1], Ctr.stop_loss[1])
     /\ Crossed(Ctr.is_bull, k_price[1], Ctr.liq_price))
        => k_result = Some(Contract_cover(Ctr, Ctr.stop_loss[1]))

C3_Witness ==
    /\ k_op = "liquidate"
    /\ ValidArgs(Args)
    /\ Ctr.stop_loss # None
    /\ Ctr.stop_loss[1] # Ctr.liq_price
    /\ Crossed(Ctr.is_bull, k_price[1], Ctr.stop_loss[1])
    /\ Crossed(Ctr.is_bull, k_price[1], Ctr.liq_price)
    /\ k_result # Some(RMul(Contract_cover(Ctr, Ctr.liq_price), LIQUIDATION_FACTOR))

\* C4: liquidate(p) returns None exactly when p has crossed neither the retained
\* stop-loss nor the liquidation price; crossing is strict, so a price equal to
\* the stop-loss or to the liquidation price does not trigger.
C4_NoneIffNotCrossed ==
    k_op = "liquidate"
        => (k_result = None
              <=> /\ (Ctr.stop_loss # None
                        => IF Ctr.is_bull
                           THEN RGe(k_price[1], Ctr.stop_loss[1])
                           ELSE RLe(k_price[1], Ctr.stop_loss[1]))
                  /\ IF Ctr.is_bull
                     THEN RGe(k_price[1], Ctr.liq_price)
                     ELSE RLe(k_price[1], Ctr.liq_price))

C4_Witness ==
    /\ k_op = "liquidate"
    /\ ValidArgs(Args)
    /\ Ctr.stop_loss = k_price
    /\ k_result = None

\* C5: close(p) is the value inside liquidate(p) whenever liquidate(p) is Some, and
\* otherwise the unpenalized mark-to-market value
\* amount*(p - entry_price) + margin - amount*p*fee (price delta mirrored for a short).
C5_CloseValue ==
    k_op = "close"
        => LET p == k_price[1]
               delta == IF Ctr.is_bull THEN RSub(p, Ctr.entry_price)
                                       ELSE RSub(Ctr.entry_price, p)
               marked == RSub(RAdd(RMul(Ctr.amount, delta), Ctr.margin),
                              RMul(RMul(Ctr.amount, p), Rat(2, 10000)))
               liq == Contract_liquidate(Ctr, p)
           IN  k_result = IF liq # None THEN liq[1] ELSE marked

C5_Witness ==
    /\ k_op = "close"
    /\ ValidArgs(Args)
    /\ Contract_liquidate(Ctr, k_price[1]) # None
    /\ k_result # Contract_cover(Ctr, k_price[1])

\* liquidate(p) takes the forced-liquidation branch: the liquidation price is
\* crossed and no retained stop-loss is crossed
ForcedLiquidation(c, p) ==
    /\ Crossed(c.is_bull, p, c.liq_price)
    /\ ~(c.stop_loss # None /\ Crossed(c.is_bull, p, c.stop_loss[1]))

C8_InvalidRejected ==
    (/\ k_args # None
     /\ \/ RLt(Args.leverage, One)
        \/ RLe(Args.entry_price, Zero)
        \/ RLe(Args.offered_balance, Zero))
        => k_contract = None

----------------------------------------------------------------------------
(* Properties of RollOnceStrategy, checked under SpecRoll                   *)

Terminal == {"Successed", "Failed", "Aborted"}

\* C9: once status is Successed, Failed or Aborted, update is a no-op: capital,
\* contract, level, max_value, best_price and status are as before the call, and
\* value() is the same number.
C9_TerminalUpdateNoOp ==
    (roll_op = "update" /\ strategy_pre.status \in Terminal)
        => /\ strategy.capital = strategy_pre.capital
           /\ strategy.contract = strategy_pre.contract
           /\ strategy.level = strategy_pre.level
           /\ strategy.max_value = strategy_pre.max_value
           /\ strategy.best_price = strategy_pre.best_price
           /\ strategy.status = strategy_pre.status
           /\ Roll_value(strategy) = Roll_value(strategy_pre)

C9_Witness ==
    /\ roll_op = "update"
    /\ strategy_pre.status = "Failed"
    /\ strategy_pre.level < Len(strategy_pre.config)
    /\ strategy = strategy_pre

\* C10 as stated: the status changes only Processing -> Successed and
\* Processing -> Failed (by update) and Processing -> Aborted (by close), and once
\* the status is Successed or Failed no update or close call changes it.
C10_StatusTransitions ==
    /\ strategy.status # strategy_pre.status
         => /\ strategy_pre.status = "Processing"
            /\ \/ roll_op = "update" /\ strategy.status \in {"Successed", "Failed"}
               \/ roll_op = "close" /\ strategy.status = "Aborted"
    /\ strategy_pre.status \in {"Successed", "Failed"}
         => strategy.status = strategy_pre.status

\* the last call was an update that began Processing and holding a contract
HeldBefore ==
    /\ roll_op = "update"
    /\ strategy_pre.status = "Processing"
    /\ strategy_pre.contract # None

\* that contract, the candle of the call and the candle's adverse extreme
PreContract == strategy_pre.contract[1]
Candle == roll_arg[1]
AdverseExtreme == IF strategy_pre.is_bull THEN Candle.low ELSE Candle.high

\* what liquidate returns at the adverse extreme; the take-profit test at the close
LiquidatedAtExtreme == Contract_liquidate(PreContract, AdverseExtreme)
TakeProfitHit == ClearsTakeProfit(strategy_pre, Candle)

\* C11: in an update that begins Processing and holding a contract, if liquidate
\* triggers at the candle's adverse extreme (low for a long, high for a short), the
\* realized value is added to capital, the contract is gone, the status is Failed
\* and no new contract is opened by that update (level unchanged).
C11_LiquidationFails ==
    (HeldBefore /\ LiquidatedAtExtreme # None)
        => /\ strategy.capital = RAdd(strategy_pre.capital, LiquidatedAtExtreme[1])
           /\ strategy.contract = None
           /\ strategy.status = "Failed"
           /\ strategy.level = strategy_pre.level

C11_Witness ==
    /\ HeldBefore
    /\ LiquidatedAtExtreme # None
    /\ strategy_pre.level < Len(strategy_pre.config)
    /\ strategy.status = "Failed"
    /\ RGt(strategy.capital, Zero)

\* C12: same-candle tie-break: when the candle's adverse extreme crosses the
\* stop-loss or liquidation price and the same candle's close satisfies the current
\* level's take-profit condition, the liquidation outcome wins: the status is
\* Failed and what is realized is the liquidation value, not the take-profit value
\* at the close.
C12_LiquidationBeatsTakeProfit ==
    (HeldBefore /\ LiquidatedAtExtreme # None /\ TakeProfitHit)
        => /\ strategy.status = "Failed"
           /\ strategy.contract = None
           /\ strategy.capital = RAdd(strategy_pre.capital, LiquidatedAtExtreme[1])
           /\ strategy.capital
                 # RAdd(strategy_pre.capital, Contract_close(PreContract, Candle.close))

C12_Witness ==
    /\ HeldBefore
    /\ LiquidatedAtExtreme # None
    /\ TakeProfitHit
    /\ strategy.status = "Failed"
    /\ RLt(strategy.capital, Contract_close(PreContract, Candle.close))

\* the capital of the strategy after the take-profit of the call realized the
\* contract at the candle's close
RealizedAtClose == RAdd(strategy_pre.capital, Contract_close(PreContract, Candle.close))

\* C13: when the candle triggers the take-profit and not the liquidation, the
\* contract is realized at the candle's close into capital and the status remains
\* Processing; if ladder levels remain, the same update opens the next level's
\* contract at that close with all of the realized capital (capital 0, level + 1),
\* so the strategy is not flat when the update returns; if none remains it holds
\* the realized capital and no contract.
C13_TakeProfitRolls ==
    (HeldBefore /\ LiquidatedAtExtreme = None /\ TakeProfitHit)
        => /\ strategy.status = "Processing"
           /\ Contract_close(PreContract, Candle.close)
                 = Contract_cover(PreContract, Candle.close)
           /\ IF strategy_pre.level < Len(strategy_pre.config)
              THEN /\ strategy.contract # None
                   /\ strategy.contract[1].entry_price = Candle.close
                   /\ strategy.contract[1].open_time = Candle.close_time
                   /\ strategy.contract[1].leverage
                         = strategy_pre.config[strategy_pre.level + 1][1]
                   /\ strategy.contract[1].margin
                         = RDiv(RealizedAtClose,
                                RAdd(One, RMul(strategy.contract[1].leverage,
                                               Rat(2, 10000))))
                   /\ strategy.capital = Zero
                   /\ strategy.level = strategy_pre.level + 1
              ELSE /\ strategy.contract = None
                   /\ strategy.capital = RealizedAtClose
                   /\ strategy.level = strategy_pre.level

C13_Witness ==
    /\ HeldBefore
    /\ LiquidatedAtExtreme = None
    /\ TakeProfitHit
    /\ strategy.level = 2
    /\ strategy.contract # None
    /\ RGt(strategy.contract[1].margin, PreContract.margin)

\* the drawdown test of update on the contract held before the call: the level
\* defines max_draw and the close-value at the candle's close is below the best
\* value seen (this candle's extremes included) times (1 - max_draw)
DrawdownHit ==
    LET max_draw == strategy_pre.config[strategy_pre.level][3]
        value_high == Contract_close(PreContract, Candle.high)
        value_low == Contract_close(PreContract, Candle.low)
        seen1 == IF RLt(strategy_pre.max_value, value_high)
                 THEN value_high ELSE strategy_pre.max_value
        seen2 == IF RLt(seen1, value_low) THEN value_low ELSE seen1
    IN  /\ max_draw # None
        /\ RLt(Contract_close(PreContract, Candle.close),
               RMul(seen2, RSub(One, max_draw[1])))

\* C14: the status Successed is reached only through the drawdown exit of update:
\* on a candle with no liquidation and no take-profit, where the current level
\* defines max_draw and the contract's close-value at the candle's close is below
\* max_value * (1 - max_draw); the contract is then realized at the close. While
\* the current level has no max_draw the status does not become Successed.
C14_SuccessedOnlyByDrawdown ==
    /\ (strategy.status = "Successed" /\ strategy_pre.status # "Successed")
         => /\ HeldBefore
            /\ LiquidatedAtExtreme = None
            /\ ~TakeProfitHit
            /\ DrawdownHit
            /\ strategy.contract = None
            /\ strategy.capital = RealizedAtClose
            /\ strategy.level = strategy_pre.level
    /\ (HeldBefore /\ LiquidatedAtExtreme = None /\ ~TakeProfitHit /\ DrawdownHit)
         => strategy.status = "Successed"
    /\ (HeldBefore /\ strategy_pre.config[strategy_pre.level][3] = None)
         => strategy.status # "Successed"

C14_Witness ==
    /\ HeldBefore
    /\ strategy.status = "Successed"
    /\ DrawdownHit
    /\ RGt(strategy.capital, Zero)

\* the last call was an update that opened a contract
OpenedNow ==
    /\ roll_op = "update"
    /\ strategy.contract # None
    /\ strategy.contract # strategy_pre.contract

\* the capital the strategy had when that update reached the opening code
CapitalAtOpen == IF strategy_pre.contract = None THEN strategy_pre.capital ELSE RealizedAtClose

\* C15: an update that opens a contract commits all of the capital (margin plus
\* the opening fee margin * leverage * 0.0002 is the whole capital, capital becomes
\* 0) at the next level's leverage and advances level by exactly one; and in every
\* state in which a contract is held, capital is 0 and value() is the contract's
\* entry margin.
C15_AllInPerLevel ==
    /\ OpenedNow
         => LET c == strategy.contract[1]
            IN  /\ strategy.level = strategy_pre.level + 1
                /\ c.leverage = strategy_pre.config[strategy_pre.level + 1][1]
                /\ RAdd(c.margin, RMul(RMul(c.margin, c.leverage), Rat(2, 10000)))
                      = CapitalAtOpen
                /\ RMul(c.amount, c.entry_price) = RMul(c.margin, c.leverage)
    /\ strategy.contract # None
         => /\ strategy.capital = Zero
            /\ Roll_value(strategy) = strategy.contract[1].margin

C15_Witness ==
    /\ OpenedNow
    /\ strategy_pre.contract # None
    /\ strategy.level = 2
    /\ strategy.capital = Zero
    /\ RGt(strategy.contract[1].margin, One)

\* the prices the last call handed to Contract::liquidate and Contract::close
CallPrices ==
    IF roll_op = "update" THEN {Candle.low, Candle.close, Candle.high}
    ELSE IF roll_op = "close" THEN {roll_arg[1].price}
    ELSE {}

\* c keeps the stop-loss update computes from its entry price and leverage, and
\* that stop-loss is strictly nearer to the entry price than the liquidation price
StopLossTighter(c) ==
    /\ c.stop_loss # None
    /\ c.stop_loss[1]
          = (IF c.is_bull
             THEN RSub(c.entry_price,
                       RMul(c.entry_price,
                            RSub(RDiv(Rat(99, 100), c.leverage), Rat(4, 1000))))
             ELSE RAdd(c.entry_price,
                       RMul(c.entry_price,
                            RSub(RDiv(Rat(99, 100), c.leverage), Rat(4, 1000)))))
    /\ IF c.is_bull THEN RGt(c.stop_loss[1], c.liq_price)
                    ELSE RLt(c.stop_loss[1], c.liq_price)

\* C16: the stop-loss a strategy supplies at open is strictly tighter than the
\* contract's liquidation price, so Contract::open never discards it, and no call
\* of update or close exits a strategy's contract through the forced-liquidation
\* branch: whatever the call realizes is the cover value at the stop-loss or at the
\* price, never 0.85 x the cover value at the liquidation price.
C16_NeverForcedLiquidation ==
    /\ strategy.contract # None => StopLossTighter(strategy.contract[1])
    /\ (roll_op \in {"update", "close"} /\ strategy_pre.contract # None)
         => /\ StopLossTighter(PreContract)
            /\ \A p \in CallPrices :
                  /\ ~ForcedLiquidation(PreContract, p)
                  /\ Contract_close(PreContract, p)
                        \in {Contract_cover(PreContract, PreContract.stop_loss[1]),
                             Contract_cover(PreContract, p)}

C16_Witness ==
    /\ HeldBefore
    /\ Crossed(strategy_pre.is_bull, AdverseExtreme, PreContract.liq_price)
    /\ strategy.status = "Failed"
    /\ strategy.capital
          = RAdd(strategy_pre.capital,
                 Contract_cover(PreContract, PreContract.stop_loss[1]))
    /\ RGt(strategy.capital,
           RMul(Contract_cover(PreContract, PreContract.liq_price), Rat(85, 100)))

\* C17: whenever the strategy holds no contract and level = ladder length (a
\* zero-level ladder from construction onward, any ladder after its last level
\* took profit), an update leaves it idle: the status stays what it was
\* (Processing unless the run has ended), no contract is opened, level, capital
\* and value() are unchanged; a zero-level ladder never holds a contract and its
\* value() is the initial capital throughout.
C17_IdleWhenLadderExhausted ==
    /\ (/\ roll_op = "update"
        /\ strategy_pre.contract = None
        /\ strategy_pre.level = Len(strategy_pre.config))
         => /\ strategy.status = strategy_pre.status
            /\ strategy.contract = None
            /\ strategy.level = strategy_pre.level
            /\ strategy.capital = strategy_pre.capital
            /\ Roll_value(strategy) = Roll_value(strategy_pre)
    /\ Len(strategy.config) = 0
         => /\ strategy.contract = None
            /\ strategy.level = 0
            /\ Roll_value(strategy) = InitialCapital
            /\ (roll_op = "update" /\ strategy_pre.status = "Processing")
                  => strategy.status = "Processing"

C17_Witness ==
    /\ roll_op = "update"
    /\ strategy_pre.status = "Processing"
    /\ strategy_pre.contract = None
    /\ strategy_pre.level = Len(strategy_pre.config)
    /\ strategy_pre.level > 0
    /\ strategy.status = "Processing"
    /\ strategy.contract = None

\* C18 as stated: a strategy fed a monotonically rising candle sequence that clears
\* every ladder level's take-profit in sequence is never Failed during the run and
\* ends with level = ladder length, for every ladder.
C18_RisingRunNeverFails ==
    rising_run
        => /\ strategy.status # "Failed"
           /\ now > Len(strategy.config) => strategy.level = Len(strategy.config)

\* every level of the ladder has a leverage below 0.99 / 0.004 = 247.5, so that
\* the stop-loss update sets lies on the losing side of the entry price
StopBeyondEntry(config) ==
    \A i \in 1..Len(config) : RLt(config[i][1], Rat(495, 2))

\* C18 amended: a strategy whose ladder leverages are all below 247.5, fed a
\* monotonically rising candle sequence (no price of a candle below the close of
\* the candle before) that clears every ladder level's take-profit in sequence, is
\* never Failed during the run, is at level k after k <= ladder length candles,
\* and ends at level = ladder length holding no contract.
C18_RisingRunClimbsLadder ==
    (rising_run /\ StopBeyondEntry(strategy.config))
        => /\ strategy.status # "Failed"
           /\ strategy.status = "Processing"
           /\ now <= Len(strategy.config)
                => strategy.level = now /\ (now > 0 => strategy.contract # None)
           /\ now > Len(strategy.config)
                => strategy.level = Len(strategy.config) /\ strategy.contract = None

C18_Witness ==
    /\ rising_run
    /\ StopBeyondEntry(strategy.config)
    /\ Len(strategy.config) = 2
    /\ now = 3
    /\ strategy.level = 2
    /\ strategy.contract = None
    /\ RGt(strategy.capital, InitialCapital)

\* C19: close(price) realizes any open contract at price (Contract::close of it)
\* into capital, sets the status Aborted and returns capital; after it no contract
\* is held and the returned number equals value().
C19_CloseAborts ==
    roll_op = "close"
        => /\ strategy.contract = None
           /\ strategy.status = "Aborted"
           /\ strategy.capital
                 = (IF strategy_pre.contract # None
                    THEN RAdd(strategy_pre.capital,
                              Contract_close(PreContract, roll_arg[1].price))
                    ELSE strategy_pre.capital)
           /\ roll_ret = Some(strategy.capital)
           /\ roll_ret[1] = Roll_value(strategy)
           /\ strategy.level = strategy_pre.level

C19_Witness ==
    /\ roll_op = "close"
    /\ strategy_pre.status = "Processing"
    /\ strategy_pre.contract # None
    /\ roll_ret # None
    /\ roll_ret[1] # Roll_value(strategy_pre)
    /\ strategy.status = "Aborted"

\* the last call was an update through which the same contract stayed open
StayedOpen ==
    /\ roll_op = "update"
    /\ strategy_pre.contract # None
    /\ strategy.contract = strategy_pre.contract

\* C20: value() marks an open contract at its entry margin, not at the market:
\* through every update during which the same contract stays open (no liquidation,
\* take-profit or drawdown exit) value() is unchanged, whatever the candle's
\* prices, and equals capital plus the contract's margin.
C20_ValueAtEntryMargin ==
    StayedOpen
        => /\ Roll_value(strategy) = Roll_value(strategy_pre)
           /\ Roll_value(strategy) = RAdd(strategy.capital, PreContract.margin)

C20_Witness ==
    /\ StayedOpen
    /\ strategy_pre.status = "Processing"
    /\ Candle.close # PreContract.entry_price
    /\ Contract_close(PreContract, Candle.close) # PreContract.margin
    /\ strategy.max_value # strategy_pre.max_value
    /\ Roll_value(strategy) = PreContract.margin

----------------------------------------------------------------------------
(* Fee accounting of Contract, checked under SpecContract                  *)

\* the fee on the opening notional margin * leverage
OpenFee == RMul(RMul(Ctr.margin, Ctr.leverage), HANDLING_FEE_RATE_MAKER)

\* the last call was close(price) and neither trigger fired at that price
ClosedUntriggered ==
    /\ k_op = "close"
    /\ Contract_liquidate(Ctr, k_price[1]) = None

\* the price move in the position's favor, times the amount
GrossProfit ==
    IF Ctr.is_bull
    THEN RMul(Ctr.amount, RSub(k_price[1], Ctr.entry_price))
    ELSE RMul(Ctr.amount, RSub(Ctr.entry_price, k_price[1]))

\* C30: open derives the margin so that margin + margin * leverage * fee equals
\* the offered capital, and amount = margin * leverage / entry_price; a close on
\* which no trigger fires returns profit + margin less a fee on the closing
\* notional amount * price only; hence opening and closing at the entry price
\* returns offered_capital - 2 * margin * leverage * fee.
C30_FeeAccounting ==
    k_contract # None
        => /\ RAdd(Ctr.margin, OpenFee) = Args.offered_balance
           /\ Ctr.amount = RDiv(RMul(Ctr.margin, Ctr.leverage), Ctr.entry_price)
           /\ ClosedUntriggered
                 => k_result = RSub(RAdd(GrossProfit, Ctr.margin),
                                    RMul(RMul(Ctr.amount, k_price[1]),
                                         HANDLING_FEE_RATE_MAKER))
           /\ (ClosedUntriggered /\ k_price[1] = Ctr.entry_price)
                 => k_result = RSub(Args.offered_balance, RAdd(OpenFee, OpenFee))

\* a valid contract closed at its entry price without a trigger: the round trip
\* cost two fees
C30_Witness ==
    /\ k_contract # None
    /\ ValidArgs(Args)
    /\ ClosedUntriggered
    /\ k_price[1] = Ctr.entry_price
    /\ RGt(OpenFee, Zero)
    /\ k_result = RSub(Args.offered_balance, RAdd(OpenFee, OpenFee))
    /\ RLt(k_result, Ctr.margin)

----------------------------------------------------------------------------
(* Properties of GeoStrategy, checked under SpecGeo                        *)

\* the struct when the last call of thread i began, and that call's candle
GeoPre(i) == geo_hist[i].pre
GeoCandle(i) == geo_hist[i].arg[1]

\* the last call of thread i was an update, and it has returned
GeoUpdated(i) == geo_hist[i].op = "update" /\ geo_pc[i] = "idle"

\* ... it held a position when it began
GeoHeldBefore(i) == GeoUpdated(i) /\ GeoPre(i).position # None
GeoPreContract(i) == GeoPre(i).position[1]

\* ... and it opened a position
GeoOpened(i) == GeoUpdated(i) /\ geo[i].open_count = GeoPre(i).open_count + 1

\* what liquidate returned at the adverse extreme of the candle
GeoLiquidated(i) ==
    Contract_liquidate(GeoPreContract(i),
                       IF GeoPre(i).is_bull THEN GeoCandle(i).low ELSE GeoCandle(i).high)

\* the reopen interval since the last open has not elapsed at the candle
GeoTooEarly(i) == GeoPre(i).last_time + GeoPre(i).interval > GeoCandle(i).close_time

\* C21: fed candles in non-decreasing close-time order, a GeoStrategy opens a
\* position only on a candle whose close time is at least reopen_interval after
\* its last open; an update that exits by stop-loss or liquidation before the
\* interval has elapsed returns flat, and a flat strategy stays flat through every
\* update before that time.
C21_ReopenInterval ==
    \A i \in GeoIds :
        /\ GeoOpened(i)
              => GeoCandle(i).close_time >= GeoPre(i).last_time + GeoPre(i).interval
        /\ (GeoUpdated(i) /\ GeoTooEarly(i)
               /\ (GeoHeldBefore(i) => GeoLiquidated(i) # None))
              => /\ geo[i].position = None
                 /\ geo[i].open_count = GeoPre(i).open_count
                 /\ geo[i].last_time = GeoPre(i).last_time

\* thread 1 has opened its second position exactly one interval after the first,
\* and thread 2 has been stopped out before its interval elapsed
C21_Witness ==
    /\ GeoOpened(1)
    /\ GeoPre(1).open_count = 1
    /\ GeoCandle(1).close_time = GeoPre(1).last_time + GeoPre(1).interval
    /\ GeoHeldBefore(2)
    /\ GeoLiquidated(2) # None
    /\ GeoTooEarly(2)
    /\ geo[2].position = None

\* the reopen interval since the open of the held position has elapsed
GeoHeldLongEnough(i) ==
    GeoPreContract(i).open_time + GeoPre(i).interval <= GeoCandle(i).close_time

\* the close of the candle lies past entry_price * (1 +- take_profit_ratio)
GeoFavorable(i) ==
    IF GeoPre(i).is_bull
    THEN RGt(GeoCandle(i).close,
             RMul(GeoPreContract(i).entry_price, RAdd(One, GeoPre(i).take_profit_ratio)))
    ELSE RLt(GeoCandle(i).close,
             RMul(GeoPreContract(i).entry_price, RSub(One, GeoPre(i).take_profit_ratio)))

\* the capital after an update that realized r from its held position: r is
\* added, and if a position was opened in the same update the capital was first
\* raised to the floor and then reduced by the share offered
GeoCapitalAfter(i, r) ==
    LET realized == RAdd(GeoPre(i).capital, r)
        floored == IF RLt(realized, geo[i].supply) THEN geo[i].supply ELSE realized
    IN  IF geo[i].position = None
        THEN geo[i].capital = realized
        ELSE geo[i].capital = RSub(floored, RMul(floored, geo[i].ratio))

\* C22: through an update on which liquidate does not trigger at the adverse
\* extreme, the held position is closed (at the candle's close) exactly when both
\* the reopen interval has elapsed since that position's open and the close has
\* moved favorably past entry_price * (1 +- take_profit_ratio); when either
\* condition fails the same position is still held after update and the capital
\* is untouched.
C22_TakeProfitOnlyAfterInterval ==
    \A i \in GeoIds :
        (GeoHeldBefore(i) /\ GeoLiquidated(i) = None)
            => IF GeoHeldLongEnough(i) /\ GeoFavorable(i)
               THEN /\ geo[i].position # GeoPre(i).position
                    /\ GeoCapitalAfter(i, Contract_close(GeoPreContract(i),
                                                         GeoCandle(i).close))
               ELSE /\ geo[i].position = GeoPre(i).position
                    /\ geo[i].capital = GeoPre(i).capital

\* thread 1 has taken profit once the interval had elapsed; thread 2 still holds
\* its position through a favorable close that came too early
C22_Witness ==
    /\ GeoHeldBefore(1)
    /\ GeoLiquidated(1) = None
    /\ GeoHeldLongEnough(1)
    /\ GeoFavorable(1)
    /\ geo[1].position # GeoPre(1).position
    /\ GeoHeldBefore(2)
    /\ GeoLiquidated(2) = None
    /\ GeoFavorable(2)
    /\ ~GeoHeldLongEnough(2)
    /\ geo[2].position = GeoPre(2).position

\* the last call of thread i is an update that began with a position held; the
\* update may still be under way at the pool
GeoHeldAtCall(i) == geo_hist[i].op = "update" /\ GeoPre(i).position # None

\* C23: when a position is held and liquidate triggers at the candle's adverse
\* extreme (low for a long, high for a short), the value liquidate returned is
\* added to the capital and the position is cleared (the same update may go on to
\* open a new one); this takes precedence over the take-profit on the same
\* candle.
C23_LiquidationFirst ==
    \A i \in GeoIds :
        (GeoHeldAtCall(i) /\ GeoLiquidated(i) # None)
            => /\ geo[i].position # GeoPre(i).position
               /\ geo[i].position # None
                     => geo[i].position[1].open_time = GeoCandle(i).close_time
               /\ GeoCapitalAfter(i, GeoLiquidated(i)[1])

\* a long held for the full interval is stopped out by a candle that dips below
\* its stop-loss and closes above its take-profit price
C23_Witness ==
    /\ GeoHeldBefore(1)
    /\ GeoLiquidated(1) # None
    /\ GeoHeldLongEnough(1)
    /\ GeoFavorable(1)
    /\ GeoLiquidated(1)[1] # Contract_close(GeoPreContract(1), GeoCandle(1).close)
    /\ geo[1].position # None

\* the funds offered to Contract::open for the position held: the margin and
\* the opening fee on margin * leverage
GeoOffered(i) ==
    LET c == geo[i].position[1]
    IN  RMul(c.margin, RAdd(One, RMul(c.leverage, HANDLING_FEE_RATE_MAKER)))

\* the capital at the Contract::open of the update that just opened: what is
\* left of it and what was offered
GeoCapitalAtOpen(i) == RAdd(geo[i].capital, GeoOffered(i))

\* the capital of that update before its top-up: after the held position, if
\* any, was realized
GeoCapitalBeforeTopUp(i) == Geo_update_held(GeoPre(i), GeoCandle(i)).capital

\* C24: every open is preceded by the top-up: at Contract::open the capital is
\* at least the floor `supply`, it is exactly the floor if it was below it, it is
\* unchanged otherwise, and the funds offered are ratio * capital, hence at least
\* ratio * supply.
C24_OpenAtOrAboveFloor ==
    \A i \in GeoIds :
        GeoOpened(i)
            => /\ RGe(GeoCapitalAtOpen(i), geo[i].supply)
               /\ RLt(GeoCapitalBeforeTopUp(i), geo[i].supply)
                     => GeoCapitalAtOpen(i) = geo[i].supply
               /\ RGe(GeoCapitalBeforeTopUp(i), geo[i].supply)
                     => GeoCapitalAtOpen(i) = GeoCapitalBeforeTopUp(i)
               /\ GeoOffered(i) = RMul(GeoCapitalAtOpen(i), geo[i].ratio)
               /\ RGe(GeoOffered(i), RMul(geo[i].ratio, geo[i].supply))

\* thread 1 reopened after a stop-loss left its capital between zero and the
\* floor; thread 2 reopened with the capital a take-profit had raised above it
C24_Witness ==
    /\ GeoOpened(1)
    /\ RGt(GeoCapitalBeforeTopUp(1), Zero)
    /\ RLt(GeoCapitalBeforeTopUp(1), geo[1].supply)
    /\ GeoCapitalAtOpen(1) = geo[1].supply
    /\ GeoOpened(2)
    /\ RGt(GeoCapitalAtOpen(2), geo[2].supply)

\* the update of thread i under way found the pool below the amount it draws
GeoFoundPoolShort(i) ==
    /\ geo_hist[i].pool_at_check # None
    /\ RLt(geo_hist[i].pool_at_check[1],
           Geo_supplement(Geo_update_held(GeoPre(i), GeoCandle(i))))

\* C25: if the pool balance is below the amount an update has to draw, the
\* update panics instead of opening: the strategy holds no position, open_count
\* is what it was when the update began, and the pool balance is what the failed
\* attempt found. A panicked update, whatever its cause, has opened nothing.
C25_InsufficientPoolAborts ==
    \A i \in GeoIds :
        /\ GeoFoundPoolShort(i)
              => /\ geo_pc[i] = "panicked"
                 /\ geo[i].position = None
                 /\ geo[i].open_count = GeoPre(i).open_count
                 /\ geo[i].cost = GeoPre(i).cost
                 /\ total_capital = geo_hist[i].pool_at_check[1]
        /\ geo_pc[i] = "panicked"
              => /\ geo[i].position = None
                 /\ geo[i].open_count = GeoPre(i).open_count

\* thread 2 asked for a floor of 10 when thread 1 had left 5 of 15 in the pool
C25_Witness ==
    /\ GeoFoundPoolShort(2)
    /\ geo_pc[2] = "panicked"
    /\ RGt(total_capital, Zero)
    /\ total_capital # pool_initial
    /\ geo[1].position # None

\* the sum of the cumulative costs of the instances in S
RECURSIVE GeoCostSum(_)
GeoCostSum(S) ==
    IF S = {} THEN Zero
    ELSE LET i == CHOOSE j \in S : TRUE
         IN  RAdd(geo[i].cost, GeoCostSum(S \ {i}))

\* C26: with several instances on one pool, in every interleaving, the pool
\* balance is never negative and, whenever no thread holds the guard, the initial
\* pool balance equals the current balance plus the sum of the instances'
\* cumulative costs.
C26_PoolConserved ==
    /\ RGe(total_capital, Zero)
    /\ pool_lock = 0 => pool_initial = RAdd(total_capital, GeoCostSum(GeoIds))

\* both instances have drawn from the pool, one of them a second time after a
\* stop-loss, and no thread is in the critical section
C26_Witness ==
    /\ pool_lock = 0
    /\ \A i \in GeoIds : RGt(geo[i].cost, Zero)
    /\ RGt(geo[1].cost, geo[1].supply)
    /\ RLt(total_capital, pool_initial)
    /\ geo_pc = [i \in GeoIds |-> "idle"]

\* the last call of thread i was close; the price it was given
GeoClosed(i) == geo_hist[i].op = "close"
GeoClosePrice(i) == geo_hist[i].arg[1].price

\* C29: GeoStrategy.close(price) realizes an open position into the capital at
\* Contract::close(price) and returns value(); afterwards no position is held. A
\* close that finds no position changes nothing and returns value() as it was,
\* so a second close, at any price, returns the same number as the first.
C29_CloseIdempotent ==
    \A i \in GeoIds :
        GeoClosed(i)
            => /\ geo[i].position = None
               /\ geo_hist[i].ret = Some(Geo_value(geo[i]))
               /\ geo[i].capital
                     = (IF GeoPre(i).position # None
                        THEN RAdd(GeoPre(i).capital,
                                  Contract_close(GeoPreContract(i), GeoClosePrice(i)))
                        ELSE GeoPre(i).capital)
               /\ GeoPre(i).position = None => geo[i] = GeoPre(i)
               /\ geo_hist[i].prev_ret # None
                     => /\ geo_hist[i].ret = geo_hist[i].prev_ret
                        /\ geo[i] = GeoPre(i)

\* a second close in a row on a strategy whose first close realized a position
\* at a value other than what it had cost
C29_Witness ==
    /\ GeoClosed(1)
    /\ geo_hist[1].prev_ret # None
    /\ geo_hist[1].ret = geo_hist[1].prev_ret
    /\ geo[1].open_count > 0
    /\ geo_hist[1].ret[1] # geo[1].cost
    /\ GeoClosed(2)
    /\ geo_hist[2].prev_ret = None
    /\ GeoPre(2).position # None
    /\ geo[2].position = None

----------------------------------------------------------------------------
(* The pool lock, checked under SpecGeoFair                                *)

\* no thread holds the guard when it opens its Contract or between calls
GeoLockReleased ==
    \A i \in GeoIds : geo_pc[i] \in {"open", "idle", "lock", "panicked"} => pool_lock # i

\* C27 as stated: the pool lock is held only inside the check-and-decrement,
\* never when a GeoStrategy opens its Contract or when update returns, and under
\* fair scheduling every update that requests the lock eventually acquires it and
\* finishes: it returns with its position opened, unless it found the pool short
\* of the amount it draws (the abort of C25).
C27_LockRequestsFinish ==
    /\ []GeoLockReleased
    /\ \A i \in GeoIds :
          (geo_pc[i] = "lock") ~> (geo_pc[i] = "idle" \/ GeoFoundPoolShort(i))

\* the failing run has happened: thread 1, stopped out, asked the pool for less
\* than it holds and was aborted at lock() because thread 2 had panicked inside
\* the critical section
C27_AbortedByPoison ==
    /\ geo_pc[1] = "panicked"
    /\ geo_hist[1].pool_at_check = None
    /\ RGe(total_capital, Geo_supplement(geo[1]))
    /\ geo_pc[2] = "panicked"
    /\ GeoFoundPoolShort(2)

----------------------------------------------------------------------------
(* The drivers, checked under SpecDriver                                   *)

\* the driver has ended: past its final close, or aborted by a panic of update
DriverEnded == drv_pc \in {"done", "aborted"}

\* the driven strategy holds no open contract
DriverFlat ==
    IF drv_kind = "roll" THEN strategy.contract = None ELSE geo[1].position = None

\* C28: for every chart of one or more candles the driver loop (update per
\* candle, then the forced close at the last candle's close) terminates, and
\* when it has ended the strategy holds no open contract; the status of a driven
\* RollOnceStrategy is then Successed, Failed or Aborted, never Processing.
C28_DriverTerminatesFlat ==
    /\ <>DriverEnded
    /\ [](DriverEnded
            => /\ DriverFlat
               /\ drv_kind = "roll"
                     => strategy.status \in {"Successed", "Failed", "Aborted"})

\* the loop ran out of candles with a contract open, and the forced close
\* realized it at the last candle's close
C28_Witness ==
    /\ drv_kind = "roll"
    /\ drv_pc = "done"
    /\ drv_left = 0
    /\ roll_op = "close"
    /\ strategy_pre.contract # None
    /\ strategy_pre.status = "Processing"
    /\ strategy.contract = None
    /\ strategy.status = "Aborted"

----------------------------------------------------------------------------
(* The chart of read_from_csv, checked under SpecChart                     *)

\* C31 as stated: the candle sequence read_from_csv returns is strictly
\* ordered by close_time, no two of its candles share a close time (rows with
\* a duplicate close time are discarded).
C31_StrictlyOrdered ==
    chart_pc = "done"
        => \A i \in 1..(Len(chart_candles) - 1) :
              chart_candles[i].close_time < chart_candles[i + 1].close_time

\* the failing run has happened: two rows with one close time and different
\* prices were read, and the chart returned holds both, in file order
C31_DuplicatesKept ==
    /\ chart_pc = "done"
    /\ Len(chart_candles) = 2
    /\ chart_candles[1].close_time = chart_candles[2].close_time
    /\ chart_candles[1].close = 1
    /\ chart_candles[2].close = 2

----------------------------------------------------------------------------
(* Further properties of GeoStrategy, checked under SpecGeo                *)

\* the last call of thread i was an update and it is over: it has returned
\* or it has panicked
GeoUpdateOver(i) == geo_hist[i].op = "update" /\ geo_pc[i] \in {"idle", "panicked"}

\* ... and it left a position other than the one it found
GeoNewPosition(i) ==
    GeoUpdateOver(i) /\ geo[i].position # None /\ geo[i].position # GeoPre(i).position

\* the capital of that update at its Contract::open: the capital once the held
\* position, if any, was realized, raised to the floor
GeoFlooredCapital(i) ==
    IF RLt(GeoCapitalBeforeTopUp(i), geo[i].supply)
    THEN geo[i].supply
    ELSE GeoCapitalBeforeTopUp(i)

\* C32: every update that opens a position sets the position (a Contract of the
\* strategy's direction and leverage, entered at the candle's close and close
\* time, offered ratio * capital), deducts ratio * capital from the capital,
\* sets last_time to the candle's close_time and increments open_count by
\* exactly one; every update that does not open a position leaves open_count,
\* last_time and the cumulative cost unchanged.
C32_OpenBookkeeping ==
    \A i \in GeoIds :
        GeoUpdateOver(i)
            => IF GeoNewPosition(i)
               THEN /\ geo[i].position[1].is_bull = geo[i].is_bull
                    /\ geo[i].position[1].leverage = geo[i].leverage
                    /\ geo[i].position[1].entry_price = GeoCandle(i).close
                    /\ geo[i].position[1].open_time = GeoCandle(i).close_time
                    /\ GeoOffered(i) = RMul(GeoFlooredCapital(i), geo[i].ratio)
                    /\ geo[i].capital
                          = RSub(GeoFlooredCapital(i),
                                 RMul(GeoFlooredCapital(i), geo[i].ratio))
                    /\ geo[i].last_time = GeoCandle(i).close_time
                    /\ geo[i].open_count = GeoPre(i).open_count + 1
               ELSE /\ geo[i].open_count = GeoPre(i).open_count
                    /\ geo[i].last_time = GeoPre(i).last_time
                    /\ geo[i].cost = GeoPre(i).cost

\* thread 1, offering half of its capital, has reopened after an exit and keeps
\* the other half; the last update of thread 2 kept the position it held
C32_Witness ==
    /\ GeoNewPosition(1)
    /\ GeoPre(1).open_count = 1
    /\ GeoPre(1).last_time < geo[1].last_time
    /\ RGt(geo[1].capital, Zero)
    /\ GeoUpdateOver(2)
    /\ GeoPre(2).position # None
    /\ geo[2].position = GeoPre(2).position

----------------------------------------------------------------------------
(* Exit prices of Contract, checked under SpecContract                     *)

\* the value of an exit of contract c at its trigger: the cover value at the
\* retained stop-loss, or 0.85 x the cover value at the liquidation price
TriggerValue(c) ==
    IF c.stop_loss # None
    THEN Contract_cover(c, c.stop_loss[1])
    ELSE RMul(Contract_cover(c, c.liq_price), Rat(85, 100))

\* C33: stop-loss and forced-liquidation exits are realized at the trigger
\* price, not at the price observed: whenever liquidate(p) triggers it returns
\* the cover value at the stop-loss, or 0.85 x the cover value at the liquidation
\* price, and every other price that triggers, however far beyond the trigger,
\* yields the same value.
C33_ExitAtTrigger ==
    (k_op = "liquidate" /\ k_result # None)
        => /\ k_result = Some(TriggerValue(Ctr))
           /\ \A q \in ContractPrices :
                 Contract_liquidate(Ctr, q) # None
                    => Contract_liquidate(Ctr, q) = k_result

\* a long with a stop-loss at 99.9 is liquidated at the observed price 9: the
\* value returned is not the cover value at 9, and it is what the price 50
\* would have given
C33_Witness ==
    /\ k_op = "liquidate"
    /\ ValidArgs(Args)
    /\ Ctr.is_bull
    /\ Ctr.stop_loss = Some(Rat(999, 10))
    /\ k_price = Some(Rat(9, 1))
    /\ k_result # None
    /\ k_result # Some(Contract_cover(Ctr, Rat(9, 1)))
    /\ k_result = Contract_liquidate(Ctr, Rat(50, 1))

----------------------------------------------------------------------------
(* Further properties of RollOnceStrategy, checked under SpecRoll          *)

\* C34: in every reachable state 0 <= level <= ladder.len(), no call lowers
\* level, and a held contract implies level >= 1: the ladder lookups
\* config[level - 1] (while holding) and config[level] (when opening, guarded by
\* level < ladder.len()) are in bounds for every ladder and candle sequence.
C34_LevelInBounds ==
    /\ 0 <= strategy.level
    /\ strategy.level <= Len(strategy.config)
    /\ strategy.level >= strategy_pre.level
    /\ strategy.contract # None => strategy.level >= 1
    /\ strategy.config = strategy_pre.config

\* the contract of the last level of a two-level ladder is held: the next
\* update reads config[level - 1], the last entry, and opens nothing
C34_Witness ==
    /\ roll_op = "update"
    /\ Len(strategy.config) = 2
    /\ strategy.level = 2
    /\ strategy_pre.level = 2
    /\ strategy_pre.contract # None
    /\ strategy.contract = None
    /\ strategy.status = "Processing"

\* C35: in every reachable state a terminal status (Successed, Failed or
\* Aborted) implies that no contract is held, so value() equals capital in every
\* terminal state.
C35_TerminalIsFlat ==
    strategy.status \in {"Successed", "Failed", "Aborted"}
        => /\ strategy.contract = None
           /\ Roll_value(strategy) = strategy.capital

\* an update has ended the run by drawdown, handing the contract's value back
\* to the capital
C35_Witness ==
    /\ HeldBefore
    /\ strategy.status = "Successed"
    /\ strategy.contract = None
    /\ RGt(strategy.capital, strategy_pre.capital)
    /\ Roll_value(strategy) = strategy.capital

\* the best value seen once the extremes of the candle of the last update are
\* taken in: self.max_value after the two `if self.max_value < ..` tests
BestSeen ==
    LET value_high == Contract_close(PreContract, Candle.high)
        value_low == Contract_close(PreContract, Candle.low)
        seen1 == IF RLt(strategy_pre.max_value, value_high)
                 THEN value_high ELSE strategy_pre.max_value
    IN  IF RLt(seen1, value_low) THEN value_low ELSE seen1

\* the last update held a contract through a candle with neither liquidation
\* nor take-profit
QuietCandle == HeldBefore /\ LiquidatedAtExtreme = None /\ ~TakeProfitHit

----------------------------------------------------------------------------
(* The stake and the reopen of GeoStrategy, checked under SpecGeo          *)

\* the margin of the position thread i holds, zero when it holds none
GeoMargin(i) == IF geo[i].position # None THEN geo[i].position[1].margin ELSE Zero

\* C37: the private stake is 0 whenever update or close has returned (and
\* after a panic of update): what a top-up moves into it is consumed in the same
\* update, so every top-up shortfall (floor - capital) is drawn in full from the
\* shared pool and added to the cumulative cost, and value() is the capital
\* plus the margin of the open position.
C37_StakeEmpty ==
    \A i \in GeoIds :
        /\ geo_pc[i] \in {"idle", "panicked"}
              => /\ geo[i].stake = Zero
                 /\ Geo_value(geo[i]) = RAdd(geo[i].capital, GeoMargin(i))
        /\ (GeoOpened(i) /\ RLt(GeoCapitalBeforeTopUp(i), geo[i].supply))
              => geo[i].cost
                    = RAdd(GeoPre(i).cost, RSub(geo[i].supply, GeoCapitalBeforeTopUp(i)))
        /\ (GeoOpened(i) /\ RGe(GeoCapitalBeforeTopUp(i), geo[i].supply))
              => geo[i].cost = GeoPre(i).cost

\* thread 1 has topped up a second time, for the part of the floor a stop-loss
\* had cost it, and its stake is empty again; thread 2 is between the
\* assignment of its stake and the top-up that consumes it
C37_Witness ==
    /\ GeoOpened(1)
    /\ RGt(GeoPre(1).cost, Zero)
    /\ RGt(GeoCapitalBeforeTopUp(1), Zero)
    /\ RLt(GeoCapitalBeforeTopUp(1), geo[1].supply)
    /\ geo[1].stake = Zero
    /\ geo_pc[2] = "open"
    /\ RGt(geo[2].stake, Zero)

\* the last update of thread i has returned, and it took profit on the position
\* it held: liquidate did not trigger, the interval had elapsed and the close
\* was past the take-profit price
GeoTookProfit(i) ==
    /\ GeoHeldBefore(i)
    /\ GeoLiquidated(i) = None
    /\ GeoHeldLongEnough(i)
    /\ GeoFavorable(i)

\* C38: a take-profit exit is followed by a reopen within the same update (the
\* pool permitting): the open_time of a held position is the strategy's
\* last_time, so the interval that allowed the take-profit has allowed the open
\* too, and the strategy is never flat after an update that took profit.
C38_ReopenAfterTakeProfit ==
    \A i \in GeoIds :
        /\ geo[i].position # None => geo[i].position[1].open_time = geo[i].last_time
        /\ GeoTookProfit(i)
              => /\ ~GeoTooEarly(i)
                 /\ geo[i].position # None
                 /\ geo[i].position[1].open_time = GeoCandle(i).close_time
                 /\ geo[i].position[1].entry_price = GeoCandle(i).close
                 /\ geo[i].open_count = GeoPre(i).open_count + 1

\* thread 1 took profit on the candle that ended the interval of its first
\* position and holds its second position, entered on that candle
C38_Witness ==
    /\ GeoTookProfit(1)
    /\ GeoCandle(1).close_time = GeoPreContract(1).open_time + GeoPre(1).interval
    /\ geo[1].open_count = 2
    /\ geo[1].position # None
    /\ geo[1].position[1].entry_price # GeoPreContract(1).entry_price
    /\ RGt(geo[1].capital, Zero)

----------------------------------------------------------------------------
(* Failure isolation on the pool, checked under SpecGeo                    *)

\* C39 as stated: the abort of one instance for an insufficient pool does not
\* make the pool unusable for the others: every top-up whose shortfall is
\* within the remaining balance completes, so an aborted instance is one whose
\* shortfall the pool does not cover.
C39_AbortIsolated ==
    \A i \in GeoIds :
        geo_pc[i] = "panicked" => RLt(total_capital, Geo_supplement(geo[i]))

----------------------------------------------------------------------------
(* The window of RollJudge, checked under SpecJudge                        *)

\* the n most recently supplied candles, newest first
NewestFirst(n) == [k \in 1..n |-> judge_fed[Len(judge_fed) - k + 1]]

\* the number of candles the window holds once Len(judge_fed) were supplied
\* to a RollJudge of capacity n
Held(n) == IF Len(judge_fed) < n THEN Len(judge_fed) ELSE n

\* C40 as stated: after any sequence of update calls the cache holds at most
\* max_length candles, they are the most recently supplied ones with the newest
\* at index 0, and each update at capacity evicts exactly the oldest candle.
C40_WindowWithinMaxLength ==
    /\ Len(judge.cache) <= judge.max_length
    /\ judge.cache = NewestFirst(Held(judge.max_length))

\* what the cache does hold: with max_length >= 1 the min(number of calls,
\* max_length) most recently supplied candles, newest at index 0, each update
\* at capacity evicting exactly the oldest; with max_length = 0 one candle, the
\* newest, after every update
JudgeWindow ==
    LET capacity == IF judge.max_length = 0 THEN 1 ELSE judge.max_length
    IN  /\ Len(judge.cache) <= capacity
        /\ judge.cache = NewestFirst(Held(capacity))
        /\ judge.max_length >= 1 => Len(judge.cache) <= judge.max_length

\* a window of length 2 has been fed five candles and holds the fifth and the
\* fourth, in that order
JudgeWindowFull ==
    /\ judge.max_length = 2
    /\ Len(judge_fed) = 5
    /\ Len(judge.cache) = 2
    /\ judge.cache[1].close_time = 5
    /\ judge.cache[2].close_time = 4

\* the failing run has happened: a RollJudge of max_length 0 holds a candle
C40_ZeroLengthHoldsOne ==
    /\ judge.max_length = 0
    /\ Len(judge_fed) >= 2
    /\ judge.cache = <<judge_fed[Len(judge_fed)]>>

====
